---------------------------- MODULE Spec2Model ----------------------------
(***************************************************************************)
(* Model of the GPU-resident evolutionary optimizer of nephos              *)
(* (src/src/image.rs: Evolver, Simulate, Rate, Select) together with the   *)
(* buffer download of src/src/buffer.rs and the matrix conversions of      *)
(* src/src/util.rs.                                                        *)
(* The basic application is modelled as well: its Simulation               *)
(* (src/src/sim.rs), the container driven by the event loop                *)
(* (src/src/app.rs) and the recording task (src/src/apps/basic.rs).        *)
(*                                                                         *)
(* Numbers.  f32 values are fixed-point integers:                          *)
(*   - scalars (shear, scale, translation, noise, strength) count          *)
(*     twentieths, so 1.0 is ONE = 20 and the clamp 0.2 is 4;              *)
(*   - angles count quarter turns, so PI is 2 and TAU is 4, and the        *)
(*     rotation matrix of an angle is exact (cos and sin in {-1, 0, 1}).   *)
(* Random draws are restricted to the grid on which both stay exact.       *)
(* The device queue executes submissions in FIFO order, asynchronously     *)
(* with the host task.                                                      *)
(***************************************************************************)
EXTENDS Integers, Sequences, FiniteSets, TLC

(***************************************************************************)
(* Bounds of the model                                                     *)
(***************************************************************************)
MaxMapsPerSet == 2
MaxEliteLen == 2
MaxChildren == 1
MaxGenerations == 2
LogImageSize == 1

(***************************************************************************)
(* Fixed-point constants                                                   *)
(***************************************************************************)
\* f32::consts::TAU and f32::consts::PI, in quarter turns
TAU == 4
PI == 2
\* 1.0 in twentieths
ONE == 5 * TAU
\* the clamp vec2(0.2, 0.2) of compose, in twentieths
SCALE_MIN == 4
\* const IMAGE_SIZE: u32 = 256, the size the program is built with
SOURCE_IMAGE_SIZE == 256
\* threads of one reduction workgroup: dispatch_workgroups((n + 63) / 64, 1, 1)
WORKGROUP == 64
\* pixel values and their sums are u32; every value of the model stays far
\* below the wrap at 2^32, so sums are exact

IMAGE_SIZE == 2 ^ LogImageSize
Pixels == IMAGE_SIZE * IMAGE_SIZE
PixelIdx == 0 .. (Pixels - 1)

(***************************************************************************)
(* Input sets that are not numeric bounds                                  *)
(***************************************************************************)
\* random_parameter(): rng.random_range(-1.0..=1.0), on the grid of 0.5
RandomParameters == << -ONE, -(ONE \div 2), 0, ONE \div 2, ONE >>
\* seeds of the thread rng (its stream is a function of the seed)
RngSeeds == {0, 1}
Depths == {0, 1}
\* mutation_strength: 0.0 and 0.25
MutationStrengths == {0, ONE \div 4}
\* mutation_damping, in units of ln 2
MutationDampings == {1}
\* the functions the simulate and render shaders may compute: a shader takes
\* no input but the buffers bound to it, so one run uses one function
Shaders == {0, 1, 2}

(***************************************************************************)
(* Small helpers                                                           *)
(***************************************************************************)
Max(a, b) == IF a >= b THEN a ELSE b

RECURSIVE Flatten(_)
Flatten(ss) == IF ss = << >> THEN << >> ELSE Head(ss) \o Flatten(Tail(ss))

Take(s, n) == SubSeq(s, 1, IF n < Len(s) THEN n ELSE Len(s))

\* the k-th draw (k = 0, 1, ...) of the rng stream of a seed, out of `choices`
Draw(seed, k, choices) ==
    choices[((seed + k + (k \div 6)) % Len(choices)) + 1]

(***************************************************************************)
(* glam and util.rs: matrices                                              *)
(***************************************************************************)
Cos(angle) == << 1, 0, -1, 0 >>[(angle % TAU) + 1]
Sin(angle) == << 0, 1, 0, -1 >>[(angle % TAU) + 1]

\* the product in the other order, scale * rotation, as two columns
ScaleRotation(angle, scale) ==
    << << Cos(angle) * scale[1], Sin(angle) * scale[2] >>,
       << -Sin(angle) * scale[1], Cos(angle) * scale[2] >> >>

\* Mat2::from_angle(angle) * Mat2::from_diagonal(scale), as two columns
RotationScale(angle, scale) ==
    << << Cos(angle) * scale[1], Sin(angle) * scale[1] >>,
       << -Sin(angle) * scale[2], Cos(angle) * scale[2] >> >>

\* Affine2::from_mat2_translation
Affine2FromMat2Translation(m, t) == [matrix2 |-> m, translation |-> t]

\* Mat3::from(Affine2): three columns of three
Mat3FromAffine2(a) ==
    << << a.matrix2[1][1], a.matrix2[1][2], 0 >>,
       << a.matrix2[2][1], a.matrix2[2][2], 0 >>,
       << a.translation[1], a.translation[2], ONE >> >>

\* a conversion that reads the matrix row by row
Affine2FromMat3Transposed(m) ==
    [matrix2 |-> << << m[1][1], m[2][1] >>, << m[1][2], m[2][2] >> >>,
     translation |-> << m[3][1], m[3][2] >>]

\* Affine2::from_mat3: the upper two rows of the three columns
Affine2FromMat3(m) ==
    [matrix2 |-> << << m[1][1], m[1][2] >>, << m[2][1], m[2][2] >> >>,
     translation |-> << m[3][1], m[3][2] >>]

\* impl From<Mat3> for WgpuMat3x3: every column extended by 0.0
WgpuFromMat3(m) == [c \in 1 .. 3 |-> << m[c][1], m[c][2], m[c][3], 0 >>]

\* impl From<WgpuMat3x3> for Mat3: every column truncated
Mat3FromWgpu(w) == [c \in 1 .. 3 |-> << w[c][1], w[c][2], w[c][3] >>]

(***************************************************************************)
(* AffineDecomposition::compose                                            *)
(***************************************************************************)
ClampScale(scale) == << Max(scale[1], SCALE_MIN), Max(scale[2], SCALE_MIN) >>

\* a compose that applies the shear (the commented-out lines 55-58)
ComposeWithShear(d) ==
    LET m == RotationScale(d.angle, ClampScale(d.scale))
        sheared == << m[1],
                      << m[2][1] + ((d.shear * m[1][1]) \div ONE),
                         m[2][2] + ((d.shear * m[1][2]) \div ONE) >> >>
    IN  [decomposition |-> d,
         computed |-> WgpuFromMat3(Mat3FromAffine2(
             Affine2FromMat2Translation(sheared, d.translation)))]

\* a compose that stores the clamped scale in the decomposition it keeps
ComposeStoringClamped(d) ==
    [decomposition |-> [d EXCEPT !.scale = ClampScale(d.scale)],
     computed |-> WgpuFromMat3(Mat3FromAffine2(
         Affine2FromMat2Translation(RotationScale(d.angle, ClampScale(d.scale)),
                                    d.translation)))]

Compose(d) ==
    [decomposition |-> d,
     computed |-> WgpuFromMat3(Mat3FromAffine2(
         Affine2FromMat2Translation(RotationScale(d.angle, ClampScale(d.scale)),
                                    d.translation)))]


(***************************************************************************)
(* State                                                                   *)
(***************************************************************************)
VARIABLES
    \* Evolver fields fixed at construction, and the argument of evolve
    maps_per_set, elite_len, n_children, depth,
    mutation_strength, mutation_damping, generations,
    source,              \* the target image texture
    random_points,       \* the shared seed point buffer
    shader,              \* which function the simulate and render shaders compute
    \* what AppBuilder::build and a caller of compose start from
    gray_image,          \* the decoded source image handed to Evolver::new
    missing_shaders,     \* the shader files ShaderBuilder::new fails on
    decomposition,       \* the receiver of a call of compose
    \* Evolver state
    step,                \* Evolver.step (AtomicUsize)
    maps,                \* contents of the population buffer "Evolving Maps"
    point_buffers,       \* per map set: contents of its point buffer
    textures,            \* per map set: contents of its render texture
    reduce_buffers,      \* per map set: contents of physical buffers A and B
    reduce_buffer_pair,  \* per map set: host-side roles a, b, a_to_b, b_to_a
    scores,              \* contents of Select.scores
    \* device queue
    queue,               \* submissions not yet executed, oldest first
    \* the task spawned by AppBuilder::build
    pc,                  \* position of the task
    i,                   \* loop variable of evolve
    fut,                 \* what the future returned by step captured
    dl,                  \* the read buffers of the two downloads
    best_map_set,        \* what the task sends on the channel
    \* history (not program state)
    log,                 \* kinds submitted since the last call of step
    maps_version,        \* number of population writes executed
    sel,                 \* record of the last Select that resumed
    resources,           \* labels of the GPU resources created, in order
    observed,            \* what the last read from outside the Evolver saw
    \* callers of the pub methods that take the reduce_buffer_pair mutexes
    mutex,               \* per map set: the thread holding its mutex, or "free"
    threads,             \* per calling thread: its position and its locals
    \* the basic Simulation (sim.rs)
    n_points,            \* points.len_u32()
    alignment,           \* limits().min_storage_buffer_offset_alignment
    weights,             \* probability_weight of each map, in order
    simulation,          \* Simulation.point_bind_groups and the map index array
    dispatched,          \* history: the dispatches the device has executed
    sim_steps,           \* history: calls of Simulation::step
    \* the application container and its event loop (app.rs)
    container,           \* the variant of AppContainer
    exit_rx,             \* messages waiting in the exit channel
    event_loop,          \* exit requested, redraw timers, redraw requested
    delivered,           \* the events App::event has received, in order
    surface,             \* number of surface textures presented
    handled,             \* history: the window events handled and their outcome
    \* the task spawned by basic::AppBuilder::build (apps/basic.rs)
    record,              \* the RecordConfig, or NoRecord
    task,                \* position of the task and its gen_iter
    record_texture,      \* the step the record texture was last rendered at
    frames,              \* the frames written to the GIF: the step each shows
    stop_simulation      \* the stop channel

params == << maps_per_set, elite_len, n_children, depth,
             mutation_strength, mutation_damping, generations,
             source, random_points, shader, gray_image, missing_shaders,
             decomposition >>
gpu == << maps, point_buffers, textures, reduce_buffers, scores, maps_version >>
locks == << mutex, threads >>
basic == << n_points, alignment, weights, simulation, dispatched, sim_steps,
            container, exit_rx, event_loop, delivered, surface, handled,
            record, task, record_texture, frames, stop_simulation >>
aux == << resources, observed, locks, basic >>
vars == << params, step, gpu, reduce_buffer_pair, queue, pc, i, fut, dl,
           best_map_set, log, sel, aux >>

\* values of the basic application before anything of it exists
NoSimulation == [point_bind_groups |-> << >>, map_index_array |-> << >>]
NoRecord == [recording |-> FALSE, n_gens |-> 0]
NoTask == [pc |-> "unspawned", gen_iter |-> 0]

\* the fit application runs none of the basic application
NoBasicApp ==
    /\ n_points = 0
    /\ alignment = 1
    /\ weights = << >>
    /\ simulation = NoSimulation
    /\ dispatched = << >>
    /\ sim_steps = 0
    /\ container = "Created"
    /\ exit_rx = 0
    /\ event_loop = [state |-> "running", timers |-> 0, redraw_requested |-> FALSE]
    /\ delivered = << >>
    /\ surface = 0
    /\ handled = << >>
    /\ record = NoRecord
    /\ task = NoTask
    /\ record_texture = 0
    /\ frames = << >>
    /\ stop_simulation = "empty"

\* let width = elite_len * (1 + n_children);
Width == elite_len * (1 + n_children)
Sets == 0 .. (Width - 1)

(***************************************************************************)
(* Evolver::new                                                            *)
(***************************************************************************)
\* the k-th entry (k = 0, 1, ...) of the random initial population
RandomAffine(seed, k) ==
    LET r(f) == Draw(seed, 6 * k + f, RandomParameters)
    IN  Compose([angle |-> (r(0) * PI) \div ONE,
                 shear |-> r(1),
                 scale |-> << (r(2) \div 2) + (ONE \div 2),
                              (r(3) \div 2) + (ONE \div 2) >>,
                 translation |-> << r(4), r(5) >>])

RandomMaps(seed, n) == [k \in 1 .. n |-> RandomAffine(seed, k - 1)]

\* assert!(source.pixels().all(|p| [0, 255].contains(&p.0[0])))
SourceImages ==
    { [p \in PixelIdx |-> 0],
      [p \in PixelIdx |-> IF p = 0 THEN 255 ELSE 0] }

ZeroPixels == [p \in PixelIdx |-> 0]
ZeroPoints == [origin |-> "zero", steps |-> << >>]
NoDownload == [state |-> "idle", data |-> << >>]
NoObservation == [what |-> "nothing", data |-> << >>]
ZeroDecomposition ==
    [angle |-> 0, shear |-> 0, scale |-> << 0, 0 >>, translation |-> << 0, 0 >>]

\* the GPU resources AppBuilder::build creates itself, then those Evolver::new
\* creates, in creation order
AppResources == << "Render Pipeline", "Camera Buffer" >>
EvolverResources ==
    << "Evolution Source Image Texture", "Evolving Maps",
       "Evolution Random Point Buffer", "Evolution Rating Point Buffer",
       "Evolution Simulation Pipeline", "Render Pipeline", "Camera Buffer",
       "Evolution Comparison Sampler", "Evolution Comparison Pipeline",
       "Evolution Reduction Pipeline", "Evolution Reducing Cache",
       "Evolution Score Buffer" >>

NoSelect == [gen |-> -1, scores |-> << >>, maps |-> << >>, indices |-> << >>,
             best_maps |-> << >>, children |-> << >>, strength |-> 0,
             downloads |-> << >>, wrote |-> FALSE]

\* ReduceBufferPair { a: buffer_a, b: buffer_b, a_to_b, b_to_a }
NewReduceBufferPair ==
    [a |-> "A", b |-> "B", a_to_b |-> << "A", "B" >>, b_to_a |-> << "B", "A" >>]

Init ==
    /\ maps_per_set \in 1 .. MaxMapsPerSet
    /\ elite_len \in 1 .. MaxEliteLen
    /\ n_children \in 0 .. MaxChildren
    /\ depth \in Depths
    /\ mutation_strength \in MutationStrengths
    /\ mutation_damping \in MutationDampings
    /\ generations \in 0 .. MaxGenerations
    /\ source \in SourceImages
    /\ shader \in Shaders
    /\ gray_image = [width |-> IMAGE_SIZE, height |-> IMAGE_SIZE, pixels |-> source]
    /\ missing_shaders = {}
    /\ decomposition = ZeroDecomposition
    /\ resources = AppResources \o EvolverResources
    /\ observed = NoObservation
    /\ mutex = [s \in Sets |-> "free"]
    /\ threads = << >>
    /\ NoBasicApp
    /\ \E seed \in RngSeeds :
          /\ maps = RandomMaps(seed, Width * maps_per_set)
          /\ random_points = [origin |-> "seed", steps |-> << >>]
    /\ step = 0
    /\ point_buffers = [s \in Sets |-> ZeroPoints]
    /\ textures = [s \in Sets |-> [image |-> ZeroPixels, points |-> ZeroPoints]]
    /\ reduce_buffers = [s \in Sets |-> [A |-> ZeroPixels, B |-> ZeroPixels]]
    /\ reduce_buffer_pair = [s \in Sets |-> NewReduceBufferPair]
    /\ scores = [s \in Sets |-> 0]
    /\ queue = << >>
    /\ pc = "evolve"
    /\ i = 0
    /\ fut = [mutation_strength |-> 0]
    /\ dl = [scores |-> NoDownload, maps |-> NoDownload]
    /\ best_map_set = << >>
    /\ log = << >>
    /\ maps_version = 0
    /\ sel = NoSelect

(***************************************************************************)
(* Submissions of one generation (host side)                               *)
(***************************************************************************)
Cmd(kind, arg) == [kind |-> kind, gen |-> i, arg |-> arg]

\* a reset that also uploads a population
ResetCmdsWritingMaps == << Cmd("reset", << >>), Cmd("write_buffer", maps) >>

\* Simulate::reset: one submission, one copy per point buffer
ResetCmds == << Cmd("reset", << >>) >>

\* Evolver::step_simulations, `depth` times
StepCmds == [k \in 1 .. depth |-> Cmd("step", step)]

\* Simulate::render -> Renderer::render_all: one submission
RenderCmds == << Cmd("render", << >>) >>

\* Rate::compare_all: one submission
CompareCmds == << Cmd("compare", << >>) >>

\* a swap of the buffers that leaves the bind groups where they are
SwapBuffersOnly(pair) ==
    [a |-> pair.b, b |-> pair.a, a_to_b |-> pair.a_to_b, b_to_a |-> pair.b_to_a]

\* ReduceBufferPair::swap
Swap(pair) ==
    [a |-> pair.b, b |-> pair.a, a_to_b |-> pair.b_to_a, b_to_a |-> pair.a_to_b]

\* itertools::iterate(IMAGE_SIZE * IMAGE_SIZE / 2, |&n| n / 2).take_while(|&n| n != 0)
RECURSIVE Halvings(_)
Halvings(n) == IF n = 0 THEN << >> ELSE << n >> \o Halvings(n \div 2)

\* a schedule that starts one pass early and so has an odd number of passes
ReducePassSizesOdd == Halvings(IMAGE_SIZE * IMAGE_SIZE)

ReducePassSizes == Halvings((IMAGE_SIZE * IMAGE_SIZE) \div 2)

\* a pass that forgets to swap the roles
ReduceAllOnceNoSwap(pairs, n) ==
    [cmd |-> Cmd("reduce", [n |-> n, bind |-> [s \in Sets |-> pairs[s].a_to_b]]),
     pairs |-> pairs]

\* Rate::reduce_all_once: the submission of one pass binds a_to_b of every
\* map set as it is when the pass is encoded, then the pair is swapped
ReduceAllOnce(pairs, n) ==
    [cmd |-> Cmd("reduce", [n |-> n, bind |-> [s \in Sets |-> pairs[s].a_to_b]]),
     pairs |-> [s \in Sets |-> Swap(pairs[s])]]

\* Rate::reduce_all: every pass in turn
RECURSIVE ReduceAll(_, _)
ReduceAll(pairs, ns) ==
    IF ns = << >> THEN [cmds |-> << >>, pairs |-> pairs]
    ELSE LET once == ReduceAllOnce(pairs, Head(ns))
             rest == ReduceAll(once.pairs, Tail(ns))
         IN  [cmds |-> << once.cmd >> \o rest.cmds, pairs |-> rest.pairs]

\* exp(-(x)) for x counted in units of ln 2, times `value`, rounded down
TimesExpNeg(value, x) == value \div (2 ^ x)

\* Evolver::select_simulations: mutation_strength * exp(-(step * damping))
MutationStrength == TimesExpNeg(mutation_strength, step * mutation_damping)

\* a select that never submits its score copy
ScoreCopyCmdsNotSubmitted(pairs) == << >>

\* Select::select, synchronous part: one submission copying element 0 of every
\* map set's buffer `a` (as named when select_simulations ran) into scores
ScoreCopyCmds(pairs) == << Cmd("copy_scores", [s \in Sets |-> pairs[s].a]) >>

Kinds(cmds) == [k \in 1 .. Len(cmds) |-> cmds[k].kind]

\* a step that rates before it renders
StepSubmissionsRateFirst(reduced) ==
    ResetCmds \o StepCmds \o CompareCmds \o reduced.cmds \o RenderCmds
        \o ScoreCopyCmds(reduced.pairs)

\* a step that resets the point buffers after simulating
StepSubmissionsResetAfterSteps(reduced) ==
    StepCmds \o ResetCmds \o RenderCmds \o CompareCmds \o reduced.cmds
        \o ScoreCopyCmds(reduced.pairs)

\* Evolver::step: everything the call submits, in submission order
StepSubmissions(reduced) ==
    ResetCmds \o StepCmds \o RenderCmds \o CompareCmds \o reduced.cmds
        \o ScoreCopyCmds(reduced.pairs)

\* a loop that runs one iteration too many
LoopContinuesInclusive == i <= generations

\* for i in 0..generations
LoopContinues == i < generations

\* Evolver::evolve, one iteration up to the return of Evolver::step
Step ==
    /\ pc = "evolve"
    /\ LoopContinues
    /\ LET reduced == ReduceAll(reduce_buffer_pair, ReducePassSizes)
           cmds == StepSubmissions(reduced)
       IN  /\ queue' = queue \o cmds
           /\ log' = Kinds(cmds)
           /\ reduce_buffer_pair' = reduced.pairs
    /\ fut' = [mutation_strength |-> MutationStrength]
    /\ pc' = "step_returned"
    /\ UNCHANGED << params, step, gpu, i, dl, best_map_set, sel, aux >>

\* first poll of the future returned by step: join!(scores, maps) polls the
\* scores download, then the maps download; each submits its copy on first poll
DownloadCmds == << Cmd("download", "scores"), Cmd("download", "maps") >>

PollSelect ==
    /\ pc = "step_returned"
    /\ queue' = queue \o DownloadCmds
    /\ log' = log \o Kinds(DownloadCmds)
    /\ dl' = [scores |-> [state |-> "submitted", data |-> << >>],
              maps |-> [state |-> "submitted", data |-> << >>]]
    /\ pc' = "select_await"
    /\ UNCHANGED << params, step, gpu, reduce_buffer_pair, i, fut,
                    best_map_set, sel, aux >>

(***************************************************************************)
(* Select::select, the part after the downloads                            *)
(***************************************************************************)
\* chunks that take every (number of sets)-th entry instead of adjacent ones
MapSetsOfInterleaved(m) ==
    LET n == Len(m) \div maps_per_set
    IN  [s \in 0 .. (n - 1) |-> [j \in 1 .. maps_per_set |-> m[s + 1 + (j - 1) * n]]]

\* maps.iter().chunks(maps_per_set): chunk s is entries [s*mps, (s+1)*mps)
MapSetsOf(m) ==
    [s \in 0 .. ((Len(m) \div maps_per_set) - 1) |->
        SubSeq(m, s * maps_per_set + 1, (s + 1) * maps_per_set)]

\* (0..scores.len()).flat_map(|idx| iter::repeat_n(idx, maps_per_set))
RepeatedIndices(n) == [k \in 1 .. (n * maps_per_set) |-> (k - 1) \div maps_per_set]

\* an insertion that puts idx in front of the elements with an equal key
RECURSIVE InsertByKeyUnstable(_, _, _)
InsertByKeyUnstable(sorted, idx, sc) ==
    IF sorted = << >> THEN << idx >>
    ELSE IF sc[Head(sorted) + 1] > sc[idx + 1]
         THEN << Head(sorted) >> \o InsertByKeyUnstable(Tail(sorted), idx, sc)
         ELSE << idx >> \o sorted

\* insertion of idx behind every element whose key is not smaller (stable)
RECURSIVE InsertByKey(_, _, _)
InsertByKey(sorted, idx, sc) ==
    IF sorted = << >> THEN << idx >>
    ELSE IF sc[Head(sorted) + 1] >= sc[idx + 1]
         THEN << Head(sorted) >> \o InsertByKey(Tail(sorted), idx, sc)
         ELSE << idx >> \o sorted

\* indices.sort_by_key(|&idx| cmp::Reverse(scores[idx])): stable, descending
RECURSIVE SortByKeyReverse(_, _, _)
SortByKeyReverse(done, todo, sc) ==
    IF todo = << >> THEN done
    ELSE SortByKeyReverse(InsertByKey(done, Head(todo), sc), Tail(todo), sc)

SortedIndices(sc) == SortByKeyReverse(<< >>, RepeatedIndices(Len(sc)), sc)

\* a take that counts map sets where the iterator yields maps
BestMapsTakeEliteLen(indices, m) ==
    LET map_sets == MapSetsOf(m)
    IN  Take(Flatten([k \in 1 .. Len(indices) |-> map_sets[indices[k]]]),
             elite_len)

\* indices.flat_map(|idx| &map_sets[idx]).take(elite_len * maps_per_set)
BestMaps(indices, m) ==
    LET map_sets == MapSetsOf(m)
    IN  Take(Flatten([k \in 1 .. Len(indices) |-> map_sets[indices[k]]]),
             elite_len * maps_per_set)

\* smallest noise whose angle perturbation noise * TAU is a whole quarter turn
NoiseGrid == ONE \div TAU

\* the grid values of the closed range -mutation_strength..=mutation_strength
NoiseChoicesInclusive(strength) ==
    IF strength < 0 THEN << >>
    ELSE LET lo == -((strength \div NoiseGrid) * NoiseGrid)
             n == ((strength - lo) \div NoiseGrid) + 1
         IN  [k \in 1 .. n |-> lo + (k - 1) * NoiseGrid]

\* the grid values of the half-open range -mutation_strength..mutation_strength
NoiseChoices(strength) ==
    IF strength <= 0 THEN << >>
    ELSE LET lo == -((strength \div NoiseGrid) * NoiseGrid)
             n == ((strength - 1 - lo) \div NoiseGrid) + 1
         IN  [k \in 1 .. n |-> lo + (k - 1) * NoiseGrid]

\* a child whose translation is perturbed by twice the drawn noise
MutateDoubleTranslation(map, strength, seed, c) ==
    LET d == map.decomposition
        noise(f) == Draw(seed, 6 * c + f, NoiseChoices(strength))
    IN  Compose([angle |-> d.angle + ((noise(0) * TAU) \div ONE),
                 shear |-> d.shear + noise(1),
                 scale |-> << d.scale[1] + noise(2), d.scale[2] + noise(3) >>,
                 translation |-> << d.translation[1] + 2 * noise(4),
                                    d.translation[2] + 2 * noise(5) >>])

\* a child that keeps the composed matrix of its parent
MutateKeepingComputed(map, strength, seed, c) ==
    LET d == map.decomposition
        noise(f) == Draw(seed, 6 * c + f, NoiseChoices(strength))
    IN  [decomposition |->
            [angle |-> d.angle + ((noise(0) * TAU) \div ONE),
             shear |-> d.shear + noise(1),
             scale |-> << d.scale[1] + noise(2), d.scale[2] + noise(3) >>,
             translation |-> << d.translation[1] + noise(4),
                                d.translation[2] + noise(5) >>],
         computed |-> map.computed]

\* one child: the parent's decomposition plus six draws, composed
Mutate(map, strength, seed, c) ==
    LET d == map.decomposition
        noise(f) == Draw(seed, 6 * c + f, NoiseChoices(strength))
    IN  Compose([angle |-> d.angle + ((noise(0) * TAU) \div ONE),
                 shear |-> d.shear + noise(1),
                 scale |-> << d.scale[1] + noise(2), d.scale[2] + noise(3) >>,
                 translation |-> << d.translation[1] + noise(4),
                                    d.translation[2] + noise(5) >>])

\* children that are all mutations of the first elite entry
ChildrenOfFirst(best_maps, strength, seed) ==
    best_maps \o
    [c \in 1 .. (n_children * Len(best_maps)) |->
        Mutate(best_maps[1], strength, seed, c - 1)]

\* let mut children = best_maps.clone(); for _ in 0..n_children { for map in
\* &best_maps { children.push(child) } }
Children(best_maps, strength, seed) ==
    best_maps \o
    [c \in 1 .. (n_children * Len(best_maps)) |->
        Mutate(best_maps[((c - 1) % Len(best_maps)) + 1], strength, seed, c - 1)]

\* rng.random_range panics on an empty range
NoisePanics(best_maps, strength) ==
    /\ n_children * Len(best_maps) > 0
    /\ NoiseChoices(strength) = << >>

\* futures::join!(scores, maps) has both outputs
DownloadsComplete == dl.scores.state = "mapped" /\ dl.maps.state = "mapped"

SelectResume ==
    /\ pc = "select_await"
    /\ DownloadsComplete
    /\ LET sc == dl.scores.data
           m == dl.maps.data
           indices == SortedIndices(sc)
           best_maps == BestMaps(indices, m)
           strength == fut.mutation_strength
           seen == [gen |-> i, scores |-> sc, maps |-> m, indices |-> indices,
                    best_maps |-> best_maps, children |-> << >>,
                    strength |-> strength,
                    downloads |-> << dl.scores.state, dl.maps.state >>,
                    wrote |-> FALSE]
       IN  IF NoisePanics(best_maps, strength)
           THEN /\ pc' = "panicked"
                /\ sel' = seen
                /\ UNCHANGED << queue, log, i >>
           ELSE \E seed \in RngSeeds :
                  LET children == Children(best_maps, strength, seed)
                  IN  /\ queue' = Append(queue, Cmd("write_buffer", children))
                      /\ log' = Append(log, "write_buffer")
                      /\ sel' = [seen EXCEPT !.children = children, !.wrote = TRUE]
                      /\ i' = i + 1
                      /\ pc' = "evolve"
    /\ dl' = [scores |-> NoDownload, maps |-> NoDownload]
    /\ UNCHANGED << params, step, gpu, reduce_buffer_pair, fut, best_map_set, aux >>

\* .expect("failed to map buffer"): the task panics when it polls a download
\* whose mapping failed
DownloadFailed == dl.scores.state = "failed" \/ dl.maps.state = "failed"

DownloadPanics ==
    /\ pc \in {"select_await", "best_await"}
    /\ DownloadFailed
    /\ pc' = "panicked"
    /\ UNCHANGED << params, step, gpu, reduce_buffer_pair, queue, i, fut, dl,
                    best_map_set, log, sel, aux >>

(***************************************************************************)
(* Evolver::get_best_map_set, called by the task after evolve              *)
(***************************************************************************)
GetBestMapSet ==
    /\ pc = "evolve"
    /\ ~LoopContinues
    /\ queue' = Append(queue, Cmd("download", "maps"))
    /\ dl' = [dl EXCEPT !.maps = [state |-> "submitted", data |-> << >>]]
    /\ pc' = "best_await"
    /\ UNCHANGED << params, step, gpu, reduce_buffer_pair, i, fut,
                    best_map_set, log, sel, aux >>

\* fut.await[0..maps_per_set].iter().map(...)
BestMapSetOf(data) ==
    [j \in 1 .. maps_per_set |->
        [map |-> Affine2FromMat3(Mat3FromWgpu(data[j].computed)),
         probability_weight |-> ONE]]

BestResume ==
    /\ pc = "best_await"
    /\ dl.maps.state = "mapped"
    /\ best_map_set' = BestMapSetOf(dl.maps.data)
    /\ dl' = [dl EXCEPT !.maps = NoDownload]
    /\ pc' = "done"
    /\ UNCHANGED << params, step, gpu, reduce_buffer_pair, queue, i, fut,
                    log, sel, aux >>

(***************************************************************************)
(* The device: executes the oldest submission                              *)
(***************************************************************************)
Executing(kind) == queue # << >> /\ Head(queue).kind = kind

\* a copy with source and destination exchanged: point buffer 0 into the seed
GpuResetReversed ==
    /\ Executing("reset")
    /\ random_points' = point_buffers[0]
    /\ queue' = Tail(queue)
    /\ UNCHANGED << maps_per_set, elite_len, n_children, depth, mutation_strength,
                    mutation_damping, generations, source, shader, gray_image,
                    missing_shaders, decomposition, step, gpu,
                    reduce_buffer_pair, pc, i, fut, dl, best_map_set, log, sel,
                    aux >>

\* encoder.copy_buffer_to_buffer(points, 0, buffer, 0, points.size())
GpuReset ==
    /\ Executing("reset")
    /\ point_buffers' = [s \in Sets |-> random_points]
    /\ queue' = Tail(queue)
    /\ UNCHANGED << params, step, maps, textures, reduce_buffers, scores,
                    maps_version, reduce_buffer_pair, pc, i, fut, dl,
                    best_map_set, log, sel, aux >>

\* what a kernel sees of one population entry: its composed matrix
EntryKey(entry) ==
    (entry.computed[1][1] + entry.computed[1][2] + entry.computed[2][1]
        + entry.computed[2][2] + entry.computed[3][1] + entry.computed[3][2])
            \div NoiseGrid

\* what the simulate kernel sees of entries [first, first + count)
RECURSIVE ReadKey(_, _, _)
ReadKey(m, first, count) ==
    IF count = 0 THEN 0
    ELSE EntryKey(m[first + count]) + ReadKey(m, first, count - 1)

\* the simulate kernel of map set s reads population entries
\* [s * maps_per_set, s * maps_per_set + maps_per_set) (its push constants)
GpuStepSimulations ==
    /\ Executing("step")
    /\ point_buffers' =
         [s \in Sets |->
            [point_buffers[s] EXCEPT !.steps =
                Append(@, [first |-> s * maps_per_set, count |-> maps_per_set,
                           version |-> maps_version, gen |-> Head(queue).gen,
                           read |-> ReadKey(maps, s * maps_per_set, maps_per_set)])]]
    /\ queue' = Tail(queue)
    /\ UNCHANGED << params, step, maps, textures, reduce_buffers, scores,
                    maps_version, reduce_buffer_pair, pc, i, fut, dl,
                    best_map_set, log, sel, aux >>

\* an image of `lit` white pixels: the last ones
SceneImage(lit) == [p \in PixelIdx |-> IF p >= Pixels - lit THEN 255 ELSE 0]

RECURSIVE SumReads(_)
SumReads(steps) ==
    IF steps = << >> THEN 0 ELSE Head(steps).read + SumReads(Tail(steps))

\* a point cloud that depends on when the kernel ran
SceneUnsynchronized(points) == (shader + SumReads(points.steps) + Len(queue)) % (Pixels + 1)

\* the point cloud a point buffer holds, as a function of its seed points and
\* of the population entries every simulation step read
Scene(points) ==
    IF points.origin = "zero" THEN 0
    ELSE (shader * (1 + SumReads(points.steps))) % (Pixels + 1)

\* rasterization of every point buffer into its texture
GpuRender ==
    /\ Executing("render")
    /\ textures' = [s \in Sets |->
          [image |-> SceneImage(Scene(point_buffers[s])), points |-> point_buffers[s]]]
    /\ queue' = Tail(queue)
    /\ UNCHANGED << params, step, maps, point_buffers, reduce_buffers, scores,
                    maps_version, reduce_buffer_pair, pc, i, fut, dl,
                    best_map_set, log, sel, aux >>

\* per-pixel difference of a rendered texture and the target
ComparePixels(image) == [p \in PixelIdx |-> IF image[p] = source[p] THEN 0 ELSE 1]

\* compare_bind_group_1 binds buffer_a: the kernel writes physical buffer A
GpuCompare ==
    /\ Executing("compare")
    /\ reduce_buffers' = [s \in Sets |->
          [reduce_buffers[s] EXCEPT !.A = ComparePixels(textures[s].image)]]
    /\ queue' = Tail(queue)
    /\ UNCHANGED << params, step, maps, point_buffers, textures, scores,
                    maps_version, reduce_buffer_pair, pc, i, fut, dl,
                    best_map_set, log, sel, aux >>

\* a dispatch of n / 64 workgroups, rounded down
WorkgroupsFloor(n) == n \div 64

\* compute_pass.dispatch_workgroups((n + 63) / 64, 1, 1)
Workgroups(n) == (n + 63) \div 64

\* the reduction kernel: thread j adds the pair (2j, 2j + 1) of the input
ReduceKernel(input, output, n) ==
    [j \in PixelIdx |->
        IF j < WORKGROUP * Workgroups(n) /\ 2 * j + 1 < Pixels
        THEN input[2 * j] + input[2 * j + 1]
        ELSE output[j]]

GpuReduce ==
    /\ Executing("reduce")
    /\ LET arg == Head(queue).arg
       IN  reduce_buffers' = [s \in Sets |->
              LET from == arg.bind[s][1]
                  to == arg.bind[s][2]
              IN  [reduce_buffers[s] EXCEPT ![to] =
                      ReduceKernel(reduce_buffers[s][from], @, arg.n)]]
    /\ queue' = Tail(queue)
    /\ UNCHANGED << params, step, maps, point_buffers, textures, scores,
                    maps_version, reduce_buffer_pair, pc, i, fut, dl,
                    best_map_set, log, sel, aux >>

\* encoder.copy_buffer_to_buffer(&buf, 0, &self.scores, idx * 4, 4)
GpuCopyScores ==
    /\ Executing("copy_scores")
    /\ scores' = [s \in Sets |-> reduce_buffers[s][Head(queue).arg[s]][0]]
    /\ queue' = Tail(queue)
    /\ UNCHANGED << params, step, maps, point_buffers, textures, reduce_buffers,
                    maps_version, reduce_buffer_pair, pc, i, fut, dl,
                    best_map_set, log, sel, aux >>

\* Buffer::download: the copy has run and map_async has resolved, with the
\* read buffer mapped or with a mapping error
GpuDownload ==
    /\ Executing("download")
    /\ LET which == Head(queue).arg
           data == IF which = "scores"
                   THEN [k \in 1 .. Width |-> scores[k - 1]]
                   ELSE maps
       IN  \/ dl' = [dl EXCEPT ![which] = [state |-> "mapped", data |-> data]]
           \/ dl' = [dl EXCEPT ![which] = [state |-> "failed", data |-> << >>]]
    /\ queue' = Tail(queue)
    /\ UNCHANGED << params, step, gpu, reduce_buffer_pair, pc, i, fut,
                    best_map_set, log, sel, aux >>

\* a write that stops after the first entry
WriteAtZeroTorn(buffer, data) ==
    [k \in 1 .. Len(buffer) |-> IF k <= 1 /\ k <= Len(data) THEN data[k] ELSE buffer[k]]

\* queue.write_buffer(&map_untyped_buffer, 0, bytemuck::cast_slice(&children))
WriteAtZero(buffer, data) ==
    [k \in 1 .. Len(buffer) |-> IF k <= Len(data) THEN data[k] ELSE buffer[k]]

GpuWriteBuffer ==
    /\ Executing("write_buffer")
    /\ maps' = WriteAtZero(maps, Head(queue).arg)
    /\ maps_version' = maps_version + 1
    /\ queue' = Tail(queue)
    /\ UNCHANGED << params, step, point_buffers, textures, reduce_buffers,
                    scores, reduce_buffer_pair, pc, i, fut, dl,
                    best_map_set, log, sel, aux >>

(***************************************************************************)
(* Specification                                                           *)
(***************************************************************************)
Next ==
    \/ Step
    \/ PollSelect
    \/ SelectResume
    \/ DownloadPanics
    \/ GetBestMapSet
    \/ BestResume
    \/ GpuReset
    \/ GpuStepSimulations
    \/ GpuRender
    \/ GpuCompare
    \/ GpuReduce
    \/ GpuCopyScores
    \/ GpuDownload
    \/ GpuWriteBuffer

Spec == Init /\ [][Next]_vars

(***************************************************************************)
(* The application of src/src/apps/fit.rs around the Evolver: build, the   *)
(* redraws of the event loop thread, callers of the accessors, shutdown    *)
(***************************************************************************)
\* a check of the size alone
SourceValidSizeOnly(img) == img.width = IMAGE_SIZE /\ img.height = IMAGE_SIZE

\* the three assertions at the head of Evolver::new
SourceValid(img) ==
    /\ img.width = IMAGE_SIZE
    /\ img.height = IMAGE_SIZE
    /\ \A p \in PixelIdx : img.pixels[p] \in {0, 255}

\* what assets/source.png can decode to: the valid images, an image with a
\* grey pixel, a wide image and a short image
GrayImages ==
    { [width |-> IMAGE_SIZE, height |-> IMAGE_SIZE, pixels |-> px] :
        px \in SourceImages \cup { [p \in PixelIdx |-> IF p = 0 THEN 128 ELSE 0] } }
    \cup { [width |-> IMAGE_SIZE + 1, height |-> IMAGE_SIZE, pixels |-> ZeroPixels],
           [width |-> IMAGE_SIZE, height |-> IMAGE_SIZE \div 2, pixels |-> ZeroPixels] }

\* the shader files Evolver::new loads, in the order it loads them
ShaderFiles == << "simulate.wgsl", "compare.wgsl", "reduce.wgsl" >>

\* how many resources Evolver::new has created when it loads shader file k
CreatedBefore == << 4, 8, 9 >>

\* the first ShaderBuilder::new(..)? that returns Err, 0 if none does
FirstMissing ==
    IF ShaderFiles[1] \in missing_shaders THEN 1
    ELSE IF ShaderFiles[2] \in missing_shaders THEN 2
    ELSE IF ShaderFiles[3] \in missing_shaders THEN 3
    ELSE 0

InitApp ==
    /\ maps_per_set = 1
    /\ elite_len = 1
    /\ n_children = MaxChildren
    /\ depth = 1
    /\ mutation_strength = ONE \div 4
    /\ mutation_damping = 1
    /\ generations = MaxGenerations
    /\ shader = 1
    /\ gray_image \in GrayImages
    /\ missing_shaders \in SUBSET { ShaderFiles[k] : k \in 1 .. 3 }
    /\ decomposition = ZeroDecomposition
    /\ source = << >>
    /\ random_points = ZeroPoints
    /\ maps = << >>
    /\ step = 0
    /\ point_buffers = << >>
    /\ textures = << >>
    /\ reduce_buffers = << >>
    /\ reduce_buffer_pair = << >>
    /\ scores = << >>
    /\ queue = << >>
    /\ pc = "build"
    /\ i = 0
    /\ fut = [mutation_strength |-> 0]
    /\ dl = [scores |-> NoDownload, maps |-> NoDownload]
    /\ best_map_set = << >>
    /\ log = << >>
    /\ maps_version = 0
    /\ sel = NoSelect
    /\ resources = << >>
    /\ observed = NoObservation
    /\ mutex = [s \in Sets |-> "free"]
    /\ threads = << >>
    /\ NoBasicApp

\* AppBuilder::build: the renderer and camera of the app, Evolver::new(..)
\* .expect("failed to create evolver"), then the spawn of the evolve task
Build ==
    /\ pc = "build"
    /\ IF ~SourceValid(gray_image)
       THEN /\ pc' = "new_panicked"
            /\ resources' = AppResources
            /\ UNCHANGED << source, random_points, gpu, reduce_buffer_pair >>
       ELSE IF FirstMissing # 0
       THEN /\ pc' = "new_err"
            /\ resources' = AppResources
                              \o Take(EvolverResources, CreatedBefore[FirstMissing])
            /\ UNCHANGED << source, random_points, gpu, reduce_buffer_pair >>
       ELSE /\ pc' = "evolve"
            /\ resources' = AppResources \o EvolverResources
            /\ source' = gray_image.pixels
            /\ \E seed \in RngSeeds :
                  /\ maps' = RandomMaps(seed, Width * maps_per_set)
                  /\ random_points' = [origin |-> "seed", steps |-> << >>]
            /\ point_buffers' = [s \in Sets |-> ZeroPoints]
            /\ textures' = [s \in Sets |-> [image |-> ZeroPixels, points |-> ZeroPoints]]
            /\ reduce_buffers' = [s \in Sets |-> [A |-> ZeroPixels, B |-> ZeroPixels]]
            /\ reduce_buffer_pair' = [s \in Sets |-> NewReduceBufferPair]
            /\ scores' = [s \in Sets |-> 0]
            /\ maps_version' = 0
    /\ UNCHANGED << maps_per_set, elite_len, n_children, depth, mutation_strength,
                    mutation_damping, generations, shader, gray_image,
                    missing_shaders, decomposition, step, queue, i, fut, dl,
                    best_map_set, log, sel, observed, locks, basic >>

\* App::render (get_some_points, drawn by the app's renderer) and the pub
\* accessors of Evolver that read a buffer
Readers ==
    { "render", "debug_maps", "debug_first_points", "get_first_buffer_a",
      "debug_scores", "download_first_texture" }

InsertAt(q, p, x) == SubSeq(q, 1, p - 1) \o << x >> \o SubSeq(q, p, Len(q))

\* the buffer named `a` by map set 0 when the submission at position p of the
\* queue was made: every later reduce submission of the queue swapped it once
RoleAAt(p) ==
    LET later == { k \in p .. Len(queue) : queue[k].kind = "reduce" }
    IN  IF Cardinality(later) % 2 = 1 THEN reduce_buffer_pair[0].b
        ELSE reduce_buffer_pair[0].a

ReadInFlight == \E k \in 1 .. Len(queue) : queue[k].kind = "read"

\* a read by a thread other than the evolve task: its submission falls between
\* any two submissions of the task; one reader, served before its next read
ExternalRead ==
    /\ pc \notin {"build", "new_panicked", "new_err"}
    /\ ~ReadInFlight
    /\ \E reader \in Readers : \E p \in 1 .. (Len(queue) + 1) :
          queue' = InsertAt(queue, p,
                      Cmd("read", [reader |-> reader, buffer |-> RoleAAt(p)]))
    /\ UNCHANGED << params, step, gpu, reduce_buffer_pair, pc, i, fut, dl,
                    best_map_set, log, sel, resources, observed, locks, basic >>

\* what a reader draws or downloads
ReadData(arg) ==
    CASE arg.reader \in {"render", "debug_first_points"} -> point_buffers[0]
      [] arg.reader = "debug_maps" -> maps
      [] arg.reader = "get_first_buffer_a" -> reduce_buffers[0][arg.buffer]
      [] arg.reader = "debug_scores" -> scores
      [] arg.reader = "download_first_texture" -> textures[0].image

GpuRead ==
    /\ Executing("read")
    /\ observed' = [what |-> Head(queue).arg.reader, data |-> ReadData(Head(queue).arg)]
    /\ queue' = Tail(queue)
    /\ UNCHANGED << params, step, gpu, reduce_buffer_pair, pc, i, fut, dl,
                    best_map_set, log, sel, resources, locks, basic >>

\* CloseRequested: the event loop exits and the runtime is dropped, which
\* drops the task at the await it is suspended in
Shutdown ==
    /\ pc \in {"select_await", "best_await"}
    /\ pc' = "cancelled"
    /\ UNCHANGED << params, step, gpu, reduce_buffer_pair, queue, i, fut, dl,
                    best_map_set, log, sel, aux >>

NextApp ==
    \/ Build
    \/ ExternalRead
    \/ GpuRead
    \/ Shutdown
    \/ Next

SpecApp == InitApp /\ [][NextApp]_vars

(***************************************************************************)
(* Evolver::rate_simulations called on its own, for any rendered image     *)
(***************************************************************************)
StalePixels == [p \in PixelIdx |-> 7]

\* an Evolver of two map sets whose textures hold an arbitrary black and white
\* image and its negative, and whose reduce buffers hold stale values
InitRate ==
    /\ maps_per_set = 1
    /\ elite_len = 2
    /\ n_children = 0
    /\ depth = 1
    /\ mutation_strength = ONE
    /\ mutation_damping = 1
    /\ generations = 0
    /\ source \in SourceImages
    /\ shader = 0
    /\ gray_image = [width |-> IMAGE_SIZE, height |-> IMAGE_SIZE, pixels |-> source]
    /\ missing_shaders = {}
    /\ decomposition = ZeroDecomposition
    /\ resources = AppResources \o EvolverResources
    /\ observed = NoObservation
    /\ mutex = [s \in Sets |-> "free"]
    /\ threads = << >>
    /\ NoBasicApp
    /\ maps = RandomMaps(0, Width * maps_per_set)
    /\ random_points = [origin |-> "seed", steps |-> << >>]
    /\ step = 0
    /\ point_buffers = [s \in Sets |-> random_points]
    /\ \E image \in [PixelIdx -> {0, 255}] :
          textures = [s \in Sets |->
             [image |-> IF s = 0 THEN image
                        ELSE [p \in PixelIdx |-> 255 - image[p]],
              points |-> random_points]]
    /\ reduce_buffers = [s \in Sets |-> [A |-> StalePixels, B |-> StalePixels]]
    /\ reduce_buffer_pair = [s \in Sets |-> NewReduceBufferPair]
    /\ scores = [s \in Sets |-> 0]
    /\ queue = << >>
    /\ pc = "rate"
    /\ i = 0
    /\ fut = [mutation_strength |-> 0]
    /\ dl = [scores |-> NoDownload, maps |-> NoDownload]
    /\ best_map_set = << >>
    /\ log = << >>
    /\ maps_version = 0
    /\ sel = NoSelect

\* Evolver::rate_simulations: compare, then reduce
RateSimulations ==
    /\ pc = "rate"
    /\ LET reduced == ReduceAll(reduce_buffer_pair, ReducePassSizes)
           cmds == CompareCmds \o reduced.cmds
       IN  /\ queue' = queue \o cmds
           /\ log' = Kinds(cmds)
           /\ reduce_buffer_pair' = reduced.pairs
    /\ pc' = "rated"
    /\ UNCHANGED << params, step, gpu, i, fut, dl, best_map_set, sel, aux >>

NextRate ==
    \/ RateSimulations
    \/ GpuCompare
    \/ GpuReduce

SpecRate == InitRate /\ [][NextRate]_vars

(***************************************************************************)
(* Properties                                                              *)
(***************************************************************************)
\* the write_buffer submissions still in the queue
PendingWrites == { k \in 1 .. Len(queue) : queue[k].kind = "write_buffer" }

\* position (0 = first) of map set idx when the sets are ranked by descending
\* score, equal scores by ascending index
RankPosition(sc, idx) ==
    Cardinality({ j \in 0 .. (Len(sc) - 1) :
                    \/ sc[j + 1] > sc[idx + 1]
                    \/ (sc[j + 1] = sc[idx + 1] /\ j < idx) })

\* the map set at rank k (0 = best)
RankedAt(sc, k) == CHOOSE idx \in 0 .. (Len(sc) - 1) : RankPosition(sc, idx) = k

\* C1: whatever Select writes back has exactly elite_len * (1 + n_children)
\* map sets of maps_per_set entries, which is the length the population buffer
\* was created with; the buffer never holds more or fewer entries.
C1_PopulationLength ==
    /\ Len(maps) = elite_len * (1 + n_children) * maps_per_set
    /\ sel.wrote => Len(sel.children) = elite_len * (1 + n_children) * maps_per_set
    /\ \A k \in PendingWrites : Len(queue[k].arg) = Len(maps)

\* C1 witness: a second Select cycle has written a population of two elites
\* with one child each, two maps per set
C1_Witness ==
    /\ sel.wrote /\ sel.gen = 1 /\ maps_version = 2
    /\ elite_len = 2 /\ n_children = 1 /\ maps_per_set = 2
    /\ Len(maps) = 8

\* C2 (as claimed): the first elite_len map sets written by Select are the
\* elite_len best-ranked map sets of the population it downloaded, in ranked
\* order, each once and unchanged.
C2_Elitism ==
    sel.wrote =>
        Take(sel.children, elite_len * maps_per_set)
            = Flatten([k \in 1 .. elite_len |->
                         MapSetsOf(sel.maps)[RankedAt(sel.scores, k - 1)]])

\* C3 (as claimed): the step counter that Select reads is the number of
\* generations completed, and the strength a Select used in generation g is
\* mutation_strength * exp(-g * mutation_damping).
C3_StrengthDecays ==
    /\ step = i
    /\ sel.gen >= 0 =>
          sel.strength = TimesExpNeg(mutation_strength, sel.gen * mutation_damping)

\* the stages of a generation, in the order of the state machine
StageRank(kind) ==
    CASE kind = "reset" -> 1
      [] kind = "step" -> 2
      [] kind = "render" -> 3
      [] kind = "compare" -> 4
      [] kind = "reduce" -> 5
      [] kind = "copy_scores" -> 6
      [] kind = "download" -> 7
      [] kind = "write_buffer" -> 8

StepOrder ==
    << "reset" >> \o [k \in 1 .. depth |-> "step"] \o << "render", "compare" >>
        \o [k \in 1 .. (2 * LogImageSize) |-> "reduce"] \o << "copy_scores" >>

\* C4: a call of step submits, in this order, one reset, depth simulation
\* steps, one render, one compare, the reduce passes and the score copy; the
\* queue never holds a stage of a generation behind a later stage of it.
C4_SubmissionOrder ==
    /\ log # << >> => Take(log, Len(StepOrder)) = StepOrder
    /\ \A p, q \in 1 .. Len(queue) :
          (p < q /\ queue[p].gen = queue[q].gen)
              => StageRank(queue[p].kind) <= StageRank(queue[q].kind)

\* C4 witness: step has just returned in a run with depth 1, nothing executed
C4_Witness ==
    /\ pc = "step_returned" /\ depth = 1 /\ i = 1
    /\ Len(queue) = Len(StepOrder)

\* the sum of a pixel array
RECURSIVE SumPixelsFrom(_, _)
SumPixelsFrom(pixels, p) ==
    IF p >= Pixels THEN 0 ELSE pixels[p] + SumPixelsFrom(pixels, p + 1)

SumPixels(pixels) == SumPixelsFrom(pixels, 0)

\* the buffer a map set's pair names `a`
ActiveBuffer(s) == reduce_buffers[s][reduce_buffer_pair[s].a]

\* C5: once compare and every reduce pass have run, element 0 of a map set's
\* active reduce buffer is the sum of the per-pixel values compare wrote for
\* that map set (all sums of the model are below 2^32).
C5_ReduceSums ==
    (pc = "rated" /\ queue = << >>) =>
        \A s \in Sets : ActiveBuffer(s)[0] = SumPixels(ComparePixels(textures[s].image))

\* C5 witness: the reduction has run on an array of ones (map set 0) and on an
\* array of zeros (map set 1)
C5_Witness ==
    /\ pc = "rated" /\ queue = << >>
    /\ ActiveBuffer(0)[0] = Pixels
    /\ ActiveBuffer(1)[0] = 0

\* C6: the order Select ranks by is descending in score, and map sets of equal
\* score keep their index order; every index occurs maps_per_set times in it.
C6_StableDescendingRank ==
    sel.gen >= 0 =>
        LET ind == sel.indices
            sc == sel.scores
        IN  /\ Len(sc) = Width
            /\ \A idx \in Sets :
                  Cardinality({ k \in 1 .. Len(ind) : ind[k] = idx }) = maps_per_set
            /\ \A p, q \in 1 .. Len(ind) :
                  p < q => /\ sc[ind[p] + 1] >= sc[ind[q] + 1]
                           /\ sc[ind[p] + 1] = sc[ind[q] + 1] => ind[p] <= ind[q]

\* C6 witness: a Select ranked scores holding a tie between two map sets and
\* a map set that outranks a lower index
C6_Witness ==
    /\ sel.gen >= 0
    /\ \E a, b \in Sets : a < b /\ sel.scores[a + 1] = sel.scores[b + 1]
    /\ \E c, d \in Sets : c < d /\ sel.scores[c + 1] < sel.scores[d + 1]

\* child is parent's decomposition perturbed by at most strength per field (the
\* angle by at most strength full turns), recomposed
IsMutationOf(child, parent, strength) ==
    LET c == child.decomposition
        d == parent.decomposition
        Within(x, bound) == -bound <= x /\ x <= bound
    IN  /\ child = Compose(c)
        /\ Within((c.angle - d.angle) * ONE, strength * TAU)
        /\ Within(c.shear - d.shear, strength)
        /\ \A k \in 1 .. 2 : /\ Within(c.scale[k] - d.scale[k], strength)
                             /\ Within(c.translation[k] - d.translation[k], strength)

\* C7: what Select writes is the elite pool, entries of the downloaded
\* population unchanged, followed by n_children blocks in which entry j is a
\* mutation of pool entry j; it is one write at offset 0 of the whole buffer,
\* after which the population is exactly the written sequence.
C7_PopulationLayout ==
    LET pool_len == elite_len * maps_per_set
        pool == Take(sel.children, pool_len)
    IN  /\ sel.wrote =>
              /\ Len(sel.children) = pool_len * (1 + n_children)
              /\ \A j \in 1 .. pool_len :
                    \E k \in 1 .. Len(sel.maps) : pool[j] = sel.maps[k]
              /\ \A r \in 1 .. n_children : \A j \in 1 .. pool_len :
                    IsMutationOf(sel.children[r * pool_len + j], pool[j], sel.strength)
        /\ \A k \in PendingWrites : Len(queue[k].arg) = Len(maps)
        /\ Cardinality({ k \in 1 .. Len(log) : log[k] = "write_buffer" }) <= 1
        /\ (sel.wrote /\ maps_version = sel.gen + 1) => maps = sel.children

\* C7 witness: the write of two elites of two maps and their children has been
\* executed, and a child differs from its parent
C7_Witness ==
    /\ sel.wrote /\ maps_version = sel.gen + 1
    /\ elite_len = 2 /\ maps_per_set = 2 /\ n_children = 1
    /\ maps[5] # maps[1]
    /\ maps[1].decomposition # maps[2].decomposition

\* C8: evolve never starts more than `generations` generations; a submission
\* of generation g is queued behind exactly g population writes, so every
\* kernel of generation g reads the population written by the Select of
\* generation g - 1; the task is past evolve only when all generations ran.
C8_SequentialGenerations ==
    /\ i <= generations
    /\ pc \in {"best_await", "done"} => i = generations
    /\ pc = "done" => maps_version = generations
    /\ \A q \in 1 .. Len(queue) :
          maps_version + Cardinality({ p \in PendingWrites : p < q }) = queue[q].gen
    /\ \A s \in Sets : \A k \in 1 .. Len(point_buffers[s].steps) :
          point_buffers[s].steps[k].version = point_buffers[s].steps[k].gen

\* C8 witness: the task finished after two generations that each wrote a
\* population with children
C8_Witness ==
    /\ pc = "done" /\ generations = 2 /\ maps_version = 2
    /\ n_children = 1 /\ depth = 1

\* C9: the result has maps_per_set maps; map j carries the composed matrix of
\* population entry j unchanged and weight 1.0; the matrix survives the
\* Mat3 <-> WgpuMat3x3 round trip; after a run of at least one generation the
\* entries are those of the map set the last Select ranked first.
C9_BestMapSet ==
    pc = "done" =>
        /\ Len(best_map_set) = maps_per_set
        /\ \A j \in 1 .. maps_per_set :
              /\ Mat3FromAffine2(best_map_set[j].map) = Mat3FromWgpu(maps[j].computed)
              /\ WgpuFromMat3(Mat3FromWgpu(maps[j].computed)) = maps[j].computed
              /\ best_map_set[j].probability_weight = ONE
              /\ sel.wrote =>
                    maps[j] = MapSetsOf(sel.maps)[RankedAt(sel.scores, 0)][j]

\* C9 witness: the best map set was not the first of the population the last
\* Select saw, and one of its maps is a quarter-turn rotation
C9_Witness ==
    /\ pc = "done" /\ sel.wrote /\ maps_per_set = 2
    /\ RankedAt(sel.scores, 0) # 0
    /\ \E j \in 1 .. 2 : best_map_set[j].map.matrix2[1][2] # 0

\* C10: the two download copies of a generation are submitted after all the
\* submissions of step (simulate, render, compare, reduce, score copy), stay
\* behind them in the queue, and Select resumes only with both downloads mapped.
C10_DownloadsAfterGpuWork ==
    /\ \A p \in 1 .. Len(log) :
          log[p] = "download" =>
              /\ p > Len(StepOrder)
              /\ Take(log, Len(StepOrder)) = StepOrder
    /\ \A p, q \in 1 .. Len(queue) :
          (p < q /\ queue[p].gen = queue[q].gen /\ queue[p].kind = "download")
              => queue[q].kind \in {"download", "write_buffer"}
    /\ sel.gen >= 0 => sel.downloads = << "mapped", "mapped" >>

\* C10 witness: both downloads of the second generation are queued behind
\* work of that generation that has not run yet
C10_Witness ==
    /\ pc = "select_await" /\ i = 1
    /\ Len(queue) = Len(StepOrder) + 2
    /\ queue[Len(queue)].kind = "download"

\* C11: after construction the population buffer changes only when the device
\* executes a write_buffer, every write_buffer in the queue is the one the
\* last Select queued, and at most one of them is in flight; no kernel, copy
\* or read from outside changes the population.
C11_SingleWriter ==
    /\ [](/\ Cardinality(PendingWrites) <= 1
          /\ \A k \in PendingWrites :
                sel.wrote /\ queue[k].arg = sel.children /\ queue[k].gen = sel.gen)
    /\ [][(pc # "build" /\ maps' # maps) => Executing("write_buffer")]_vars

\* C11 witness: a population write that changes the population is in flight
\* behind a read of the population from outside, after an earlier write ran
C11_Witness ==
    /\ maps_version = 1
    /\ \E k \in PendingWrites : queue[k].arg # maps
    /\ \E k \in 1 .. Len(queue) :
          queue[k].kind = "read" /\ queue[k].arg.reader = "debug_maps"

\* C12: a population write replaces the whole buffer by the written sequence
\* in one step; when the task stops on a failed download or is dropped while
\* it awaits its downloads, no write of the generation it was in exists, and
\* once the queue has drained the population is still the one the previous
\* generation's Select wrote (the initial one if there was none).
C12_AtomicSwap ==
    /\ [][(pc # "build" /\ maps' # maps)
             => (Executing("write_buffer") /\ maps' = Head(queue).arg
                   /\ Len(Head(queue).arg) = Len(maps))]_vars
    /\ [](pc \in {"panicked", "cancelled"} =>
            /\ \A k \in PendingWrites : queue[k].gen < i
            /\ maps_version + Cardinality(PendingWrites) = i
            /\ sel.wrote => sel.gen = i - 1
            /\ (PendingWrites = {} /\ sel.wrote) => maps = sel.children
            /\ (PendingWrites = {} /\ ~sel.wrote) => maps_version = 0)

\* C12 witness: the scores download of the second generation failed and the
\* task panicked; the population is the one the first generation wrote
C12_Witness ==
    /\ pc = "panicked" /\ dl.scores.state = "failed"
    /\ i = 1 /\ maps_version = 1 /\ queue = << >>
    /\ sel.wrote /\ maps = sel.children

\* rotation by the angle times the clamped scale, plus translation, in the
\* column layout of WgpuMat3x3
ExpectedComputed(d) ==
    LET sx == IF d.scale[1] < SCALE_MIN THEN SCALE_MIN ELSE d.scale[1]
        sy == IF d.scale[2] < SCALE_MIN THEN SCALE_MIN ELSE d.scale[2]
    IN  << << Cos(d.angle) * sx, Sin(d.angle) * sx, 0, 0 >>,
           << -Sin(d.angle) * sy, Cos(d.angle) * sy, 0, 0 >>,
           << d.translation[1], d.translation[2], ONE, 0 >> >>

IsComposed(entries) ==
    \A k \in 1 .. Len(entries) :
        entries[k].computed = ExpectedComputed(entries[k].decomposition)

\* C13: every entry of the population buffer, at construction and after every
\* write, and every entry of a write still in flight, carries the composition
\* of its own decomposition.
C13_ComputedMatchesDecomposition ==
    /\ IsComposed(maps)
    /\ \A k \in PendingWrites : IsComposed(queue[k].arg)

\* C13 witness: after two generations with children the population holds an
\* entry that differs from the elite it follows, an entry whose scale is
\* clamped and an entry that is rotated by an odd number of quarter turns
C13_Witness ==
    /\ maps_version = 2 /\ n_children = 1
    /\ maps[Len(maps)] # maps[Len(maps) \div 2]
    /\ \E k \in 1 .. Len(maps) : maps[k].decomposition.scale[1] < SCALE_MIN
    /\ \E k \in 1 .. Len(maps) : Sin(maps[k].decomposition.angle) # 0

C15_NoIntermediateObservable ==
    observed.what \in {"render", "debug_first_points"} =>
        \/ observed.data.origin = "zero"
        \/ Len(observed.data.steps) = depth

\* the end-to-end scenario: maps_per_set = 2, elite_len = 1, n_children = 0,
\* depth = 1 (the number of points is not represented)
Scenario == maps_per_set = 2 /\ elite_len = 1 /\ n_children = 0 /\ depth = 1

\* the score of the single map set as a function of the initial population,
\* the target image and the shaders alone
ScenarioScore(population) ==
    SumPixels(ComparePixels(
        SceneImage((shader * (1 + EntryKey(population[1]) + EntryKey(population[2])))
                       % (Pixels + 1))))

ComposeAngles == (-TAU) .. (2 * TAU)
ComposeScales == {0, SCALE_MIN - 1, SCALE_MIN, ONE \div 2, ONE}
ComposeTranslations == {-ONE, 0, ONE \div 2}
ComposeShears == {0, ONE}
Decompositions ==
    [angle : ComposeAngles, shear : ComposeShears,
     scale : ComposeScales \X ComposeScales,
     translation : ComposeTranslations \X ComposeTranslations]

InitCompose ==
    /\ decomposition \in Decompositions
    /\ maps_per_set = 1
    /\ elite_len = 1
    /\ n_children = 0
    /\ depth = 0
    /\ mutation_strength = 0
    /\ mutation_damping = 1
    /\ generations = 0
    /\ shader = 0
    /\ gray_image = [width |-> 0, height |-> 0, pixels |-> << >>]
    /\ missing_shaders = {}
    /\ source = << >>
    /\ random_points = ZeroPoints
    /\ maps = << >>
    /\ step = 0
    /\ point_buffers = << >>
    /\ textures = << >>
    /\ reduce_buffers = << >>
    /\ reduce_buffer_pair = << >>
    /\ scores = << >>
    /\ queue = << >>
    /\ pc = "compose"
    /\ i = 0
    /\ fut = [mutation_strength |-> 0]
    /\ dl = [scores |-> NoDownload, maps |-> NoDownload]
    /\ best_map_set = << >>
    /\ log = << >>
    /\ maps_version = 0
    /\ sel = NoSelect
    /\ resources = << >>
    /\ observed = NoObservation
    /\ mutex = [s \in Sets |-> "free"]
    /\ threads = << >>
    /\ NoBasicApp

\* one call of compose; the Affine it returns is kept in maps
ComposeCall ==
    /\ pc = "compose"
    /\ maps' = << Compose(decomposition) >>
    /\ pc' = "composed"
    /\ UNCHANGED << params, step, point_buffers, textures, reduce_buffers, scores,
                    maps_version, reduce_buffer_pair, queue, i, fut, dl,
                    best_map_set, log, sel, aux >>

NextCompose == ComposeCall
SpecCompose == InitCompose /\ [][NextCompose]_vars

\* the length of a vector of the grid
Length(v) ==
    LET n == v[1] * v[1] + v[2] * v[2]
    IN  CHOOSE r \in 0 .. n : r * r <= n /\ n < (r + 1) * (r + 1)

\* the angle, in 0 .. TAU - 1, of the direction of a vector that is not zero
Atan2(v) ==
    CHOOSE q \in 0 .. (TAU - 1) :
        Cos(q) * Length(v) = v[1] /\ Sin(q) * Length(v) = v[2]

\* angle, scale and translation read back from a composed matrix: the scale
\* components are the lengths of the two columns, the angle is the direction
\* of the first column
Decompose(computed) ==
    LET a == Affine2FromMat3(Mat3FromWgpu(computed))
    IN  [angle |-> Atan2(a.matrix2[1]),
         scale |-> << Length(a.matrix2[1]), Length(a.matrix2[2]) >>,
         translation |-> a.translation]

\* C17: for a decomposition whose scale components are at least 0.2, reading
\* angle, scale and translation back from compose's matrix gives the angle
\* modulo a full turn, the scale and the translation of the decomposition.
C17_ComposeRoundTrip ==
    (/\ pc = "composed"
     /\ decomposition.scale[1] >= SCALE_MIN
     /\ decomposition.scale[2] >= SCALE_MIN) =>
        LET r == Decompose(maps[1].computed)
        IN  /\ r.angle = decomposition.angle % TAU
            /\ r.scale = decomposition.scale
            /\ r.translation = decomposition.translation
            /\ maps[1].decomposition = decomposition

\* C17 witness: a composed decomposition with a negative angle off the axis,
\* two different scales at and above the clamp, and a translation
C17_Witness ==
    /\ pc = "composed"
    /\ decomposition.angle = -1
    /\ decomposition.scale = << SCALE_MIN, ONE >>
    /\ decomposition.translation = << -ONE, ONE \div 2 >>
    /\ Decompose(maps[1].computed).angle = 3

\* the target image is 256x256 (IMAGE_SIZE squared) and black and white
ValidTarget ==
    /\ gray_image.width = IMAGE_SIZE
    /\ gray_image.height = IMAGE_SIZE
    /\ \A p \in DOMAIN gray_image.pixels : gray_image.pixels[p] \in {0, 255}

ConstructionFailed == pc \in {"new_panicked", "new_err"}

\* C18: once build has run, an invalid target image has aborted Evolver::new
\* with none of its GPU resources created, a shader that fails to load has
\* made it return Err, and only a valid input has produced an Evolver; after
\* a failed construction nothing is ever submitted, no generation runs, and
\* the application stays failed (no retry).
C18_ConstructionFatal ==
    /\ [](/\ (pc # "build" /\ ~ValidTarget) =>
                 (pc = "new_panicked" /\ resources = AppResources)
          /\ (pc # "build" /\ ValidTarget /\ missing_shaders # {}) =>
                 (pc = "new_err" /\ Len(resources) < Len(AppResources \o EvolverResources))
          /\ (pc # "build" /\ ValidTarget /\ missing_shaders = {}) =>
                 (~ConstructionFailed /\ resources = AppResources \o EvolverResources)
          /\ ConstructionFailed =>
                 /\ queue = << >> /\ log = << >> /\ i = 0
                 /\ maps = << >> /\ maps_version = 0
                 /\ sel = NoSelect /\ best_map_set = << >>)
    /\ [][ConstructionFailed => (pc' = pc /\ queue' = << >>)]_vars

\* C18 witness: build has run on a 256x256 image with one grey pixel while all
\* shaders were present, and construction has aborted
C18_Witness ==
    /\ pc = "new_panicked"
    /\ gray_image.width = IMAGE_SIZE /\ gray_image.height = IMAGE_SIZE
    /\ \E p \in PixelIdx : gray_image.pixels[p] = 128
    /\ missing_shaders = {}
    /\ resources = AppResources

\* the sum of the first n elements of a pixel array
RECURSIVE SumFront(_, _)
SumFront(pixels, n) ==
    IF n = 0 THEN 0 ELSE pixels[n - 1] + SumFront(pixels, n - 1)

\* the passes of one reduction that are still in the queue
ReducesLeft == { k \in 1 .. Len(queue) : queue[k].kind = "reduce" }

\* the buffer of map set s the next pass reads, or the one the pair calls `a`
\* when every pass has run
ActiveAt(s) ==
    IF queue # << >> THEN Head(queue).arg.bind[s][1] ELSE reduce_buffer_pair[s].a

\* C19: reduce_all issues log2(pixel count) passes, 16 for the 256x256 image,
\* pass k for (pixel count / 2^k) outputs (32768, ..., 1) with that many
\* outputs divided by 64, rounded up, workgroups; once k passes have run, the
\* first (pixel count / 2^k) elements of the active buffer add up to the sum
\* of the per-pixel values compare wrote.
C19_ReducePasses ==
    /\ LET real == Halvings((SOURCE_IMAGE_SIZE * SOURCE_IMAGE_SIZE) \div 2)
       IN  /\ Len(real) = 16
           /\ 2 ^ 16 = SOURCE_IMAGE_SIZE * SOURCE_IMAGE_SIZE
           /\ \A k \in 1 .. 16 :
                 /\ real[k] = (SOURCE_IMAGE_SIZE * SOURCE_IMAGE_SIZE) \div (2 ^ k)
                 /\ WORKGROUP * Workgroups(real[k]) >= real[k]
                 /\ WORKGROUP * (Workgroups(real[k]) - 1) < real[k]
    /\ (pc = "rated" /\ Len(queue) = Cardinality(ReducesLeft)) =>
          LET passes == 2 * LogImageSize
              done == passes - Len(queue)
          IN  /\ Len(queue) <= passes
              /\ 2 ^ passes = Pixels
              /\ \A j \in 1 .. Len(queue) :
                    queue[j].arg.n = Pixels \div (2 ^ (done + j))
              /\ \A s \in Sets :
                    SumFront(reduce_buffers[s][ActiveAt(s)], Pixels \div (2 ^ done))
                        = SumPixels(ComparePixels(textures[s].image))

\* C19 witness: the first pass has run and the others have not; the front
\* half of the buffer it wrote holds partial sums of two, the rest is stale
C19_Witness ==
    /\ pc = "rated"
    /\ Len(queue) = (2 * LogImageSize) - 1
    /\ Cardinality(ReducesLeft) = Len(queue)
    /\ reduce_buffers[0][ActiveAt(0)][0] = 2
    /\ reduce_buffers[0][ActiveAt(0)][(Pixels \div 2) - 1] = 2
    /\ reduce_buffers[0][ActiveAt(0)][Pixels - 1] = StalePixels[Pixels - 1]

\* a pair whose bind groups match its roles: a_to_b reads a and writes b
PairConsistent(pair) ==
    /\ pair.a # pair.b
    /\ pair.a_to_b = << pair.a, pair.b >>
    /\ pair.b_to_a = << pair.b, pair.a >>

\* C20: every pair keeps its bind groups in step with its roles; every queued
\* pass reads the buffer the pass before it wrote and writes the other one,
\* the score copy reads the buffer the last pass wrote, and when it executes
\* scores[s] becomes element 0 of that buffer of map set s, the final reduced
\* value of map set s.
C20_RolesAndScoreCopy ==
    /\ [](/\ \A s \in DOMAIN reduce_buffer_pair : PairConsistent(reduce_buffer_pair[s])
          /\ \A j \in 1 .. Len(queue) : queue[j].kind = "reduce" =>
                /\ \A s \in Sets : queue[j].arg.bind[s][1] # queue[j].arg.bind[s][2]
                /\ j < Len(queue)
                /\ queue[j + 1].kind \in {"reduce", "copy_scores"}
                /\ queue[j + 1].kind = "reduce" =>
                      \A s \in Sets :
                          queue[j + 1].arg.bind[s][1] = queue[j].arg.bind[s][2]
                /\ queue[j + 1].kind = "copy_scores" =>
                      \A s \in Sets : queue[j + 1].arg[s] = queue[j].arg.bind[s][2])
    /\ [][(Executing("reduce") /\ queue' = Tail(queue)) =>
             \A s \in Sets :
                 /\ reduce_buffers'[s][Head(queue).arg.bind[s][1]]
                        = reduce_buffers[s][Head(queue).arg.bind[s][1]]
                 /\ SumFront(reduce_buffers'[s][Head(queue).arg.bind[s][2]],
                             Head(queue).arg.n)
                        = SumFront(reduce_buffers[s][Head(queue).arg.bind[s][1]],
                                   2 * Head(queue).arg.n)]_vars
    /\ [][(Executing("copy_scores") /\ queue' = Tail(queue)) =>
             \A s \in Sets :
                 /\ scores'[s] = reduce_buffers[s][Head(queue).arg[s]][0]
                 /\ scores'[s] = SumFront(ComparePixels(textures[s].image), Pixels)]_vars

\* C20 witness: the second pass of a generation is next, reading B and
\* writing A, the score copy behind it reads A, and two map sets hold
\* different partial sums
C20_Witness ==
    /\ Len(queue) >= 2
    /\ queue[1].kind = "reduce" /\ queue[1].arg.bind[0] = << "B", "A" >>
    /\ \E j \in 2 .. Len(queue) : queue[j].kind = "copy_scores" /\ queue[j].arg[0] = "A"
    /\ \E s, t \in Sets : reduce_buffers[s].B[0] # reduce_buffers[t].B[0]

\* the first reduction pass of its generation is the next submission to run
FirstPassNext ==
    /\ Executing("reduce")
    /\ Cardinality({ k \in ReducesLeft : queue[k].gen = Head(queue).gen })
           = 2 * LogImageSize

\* C21: between two step calls role `a` of every pair names buffer A, the
\* buffer compare writes; and when the first reduction pass of a generation
\* runs, it reads buffer A, which holds the compare values of the textures
\* rendered in that same generation.
C21_RoleAAtGenerationStart ==
    /\ (pc \in {"evolve", "step_returned", "select_await"}) =>
          \A s \in Sets :
              /\ reduce_buffer_pair[s].a = "A"
              /\ reduce_buffer_pair[s].a_to_b[1] = "A"
    /\ FirstPassNext =>
          \A s \in Sets :
              /\ Head(queue).arg.bind[s][1] = "A"
              /\ reduce_buffers[s].A = ComparePixels(textures[s].image)
              /\ \A k \in DOMAIN textures[s].points.steps :
                    textures[s].points.steps[k].gen = Head(queue).gen

\* C21 witness: the first pass of the second generation is next, and for some
\* map set the compare values it reads add up to another score than the one
\* the first generation gave that map set, whose partial sums are still in B
C21_Witness ==
    /\ FirstPassNext
    /\ Head(queue).gen = 1 /\ sel.gen = 0 /\ depth = 1
    /\ \E s \in Sets :
          /\ SumPixels(reduce_buffers[s].A) # sel.scores[s + 1]
          /\ reduce_buffers[s].B # reduce_buffers[s].A
          /\ reduce_buffers[s].B # ZeroPixels

\* population entries [s * maps_per_set, (s + 1) * maps_per_set) of m
ChunkOf(m, s) == SubSeq(m, s * maps_per_set + 1, (s + 1) * maps_per_set)

RECURSIVE SumEntryKeys(_)
SumEntryKeys(entries) ==
    IF entries = << >> THEN 0
    ELSE EntryKey(Head(entries)) + SumEntryKeys(Tail(entries))

\* the score of a map set whose entries are `chunk`: its point cloud after
\* `depth` steps (depth is 0 or 1), rendered, compared and summed
ChunkScore(chunk) ==
    SumPixels(ComparePixels(
        SceneImage((shader * (1 + depth * SumEntryKeys(chunk))) % (Pixels + 1))))

\* C22: map set s is the same in every stage: the steps applied to point
\* buffer s used entries [s*maps_per_set, (s+1)*maps_per_set), texture s
\* shows point buffer s, the score Select downloads at index s is the score
\* of chunk s of the population it downloads, and the entries Select takes
\* for the best index are that chunk.
C22_MapSetIndex ==
    /\ \A s \in DOMAIN point_buffers :
          /\ \A k \in DOMAIN point_buffers[s].steps :
                /\ point_buffers[s].steps[k].first = s * maps_per_set
                /\ point_buffers[s].steps[k].count = maps_per_set
                /\ point_buffers[s].steps[k].version = maps_version =>
                      point_buffers[s].steps[k].read = SumEntryKeys(ChunkOf(maps, s))
          /\ \A k \in DOMAIN textures[s].points.steps :
                textures[s].points.steps[k].first = s * maps_per_set
    /\ sel.gen >= 0 =>
          /\ Len(sel.scores) = Width
          /\ \A s \in Sets : sel.scores[s + 1] = ChunkScore(ChunkOf(sel.maps, s))
          /\ Take(sel.best_maps, maps_per_set) = ChunkOf(sel.maps, sel.indices[1])

\* C22 witness: a Select has run on two map sets of two entries each that got
\* different scores, the second set being the best
C22_Witness ==
    /\ sel.gen >= 0 /\ maps_per_set = 2 /\ Width = 2 /\ depth = 1
    /\ sel.scores[2] > sel.scores[1]
    /\ sel.indices[1] = 1
    /\ ChunkOf(sel.maps, 0) # ChunkOf(sel.maps, 1)
    /\ sel.maps[2] # sel.maps[3]

\* the absolute value
Abs(x) == IF x < 0 THEN -x ELSE x

\* the children Select pushed behind the elite pool, with the index of the
\* pool entry each was made from
ChildParents ==
    LET pool_len == Len(sel.best_maps)
    IN  [c \in 1 .. (Len(sel.children) - pool_len) |->
            [child |-> sel.children[pool_len + c].decomposition,
             parent |-> sel.best_maps[((c - 1) % pool_len) + 1].decomposition]]

\* C23: with strength s > 0 every child's shear, scale and translation
\* components are within s of its parent's, its angle within s full turns
\* (2 * pi * s) of its parent's, and the elite pool is written as it was
\* downloaded.
C23_BoundedPerturbation ==
    (sel.wrote /\ sel.strength > 0) =>
        /\ Take(sel.children, Len(sel.best_maps)) = sel.best_maps
        /\ \A j \in 1 .. Len(sel.best_maps) :
              \E k \in 1 .. Len(sel.maps) : sel.best_maps[j] = sel.maps[k]
        /\ \A c \in DOMAIN ChildParents :
              LET ch == ChildParents[c].child
                  pa == ChildParents[c].parent
              IN  /\ Abs(ch.angle - pa.angle) * ONE <= TAU * sel.strength
                  /\ Abs(ch.shear - pa.shear) <= sel.strength
                  /\ Abs(ch.scale[1] - pa.scale[1]) <= sel.strength
                  /\ Abs(ch.scale[2] - pa.scale[2]) <= sel.strength
                  /\ Abs(ch.translation[1] - pa.translation[1]) <= sel.strength
                  /\ Abs(ch.translation[2] - pa.translation[2]) <= sel.strength

\* C23 witness: a child whose angle moved by a quarter turn and whose fields
\* got different perturbations, one of them the full strength
C23_Witness ==
    /\ sel.wrote /\ sel.strength > 0
    /\ \E c \in DOMAIN ChildParents :
          LET ch == ChildParents[c].child
              pa == ChildParents[c].parent
          IN  /\ Abs(ch.angle - pa.angle) = 1
              /\ ch.shear - pa.shear # ch.scale[1] - pa.scale[1]
              /\ \E k \in 1 .. 2 : ch.translation[k] - pa.translation[k] = -sel.strength

\* C24: in the queue the reset of a generation is ahead of every step of that
\* generation; when a step is the next submission to run, every point buffer
\* holds the seed points with only steps of that same generation applied,
\* fewer than depth of them, and all map sets are in the same state of
\* progress.
C24_ResetBeforeSteps ==
    /\ \A k \in 1 .. Len(queue) : queue[k].kind = "reset" =>
          \A j \in 1 .. Len(queue) :
              (queue[j].kind = "step" /\ queue[j].gen = queue[k].gen) => k < j
    /\ Executing("step") =>
          /\ \A k \in 1 .. Len(queue) : queue[k].kind = "reset" =>
                queue[k].gen > Head(queue).gen
          /\ \A s \in Sets :
                /\ point_buffers[s].origin = random_points.origin
                /\ point_buffers[s].origin = "seed"
                /\ Len(point_buffers[s].steps) < depth
                /\ \A k \in DOMAIN point_buffers[s].steps :
                      point_buffers[s].steps[k].gen = Head(queue).gen
                /\ Len(point_buffers[s].steps) = Len(point_buffers[0].steps)

\* C24 witness: the step of the second generation is next; the point buffers
\* are back to the seed points while the textures still show the points the
\* first generation simulated
C24_Witness ==
    /\ Executing("step") /\ Head(queue).gen = 1
    /\ \A s \in Sets : point_buffers[s] = random_points
    /\ \E s \in Sets :
          /\ Len(textures[s].points.steps) = 1
          /\ textures[s].points.steps[1].gen = 0

\* element counts of every buffer the generations work on
BufferSizes ==
    [maps |-> Len(maps),
     points |-> DOMAIN point_buffers,
     textures |-> [s \in DOMAIN textures |-> DOMAIN textures[s].image],
     reduce |-> [s \in DOMAIN reduce_buffers |->
                    << DOMAIN reduce_buffers[s].A, DOMAIN reduce_buffers[s].B >>],
     scores |-> DOMAIN scores]

\* C25: once build has run, no step changes the seed point buffer or the
\* target image, creates a resource, or changes the number or the size of the
\* population buffer, the point buffers, the textures, the reduce buffers or
\* the score buffer.
C25_BuffersReused ==
    /\ [][pc # "build" =>
             /\ random_points' = random_points
             /\ source' = source
             /\ resources' = resources
             /\ BufferSizes' = BufferSizes]_vars
    /\ [](pc \notin {"build", "new_panicked", "new_err"} =>
             /\ random_points = [origin |-> "seed", steps |-> << >>]
             /\ source = gray_image.pixels
             /\ BufferSizes.maps = Width * maps_per_set
             /\ BufferSizes.points = Sets
             /\ BufferSizes.scores = Sets
             /\ \A s \in Sets : BufferSizes.reduce[s] = << PixelIdx, PixelIdx >>)

\* C25 witness: two generations have run to the end on the buffers and the
\* resources build created, and the last one left its points and sums in them
C25_Witness ==
    /\ pc = "done" /\ maps_version = 2 /\ queue = << >>
    /\ resources = AppResources \o EvolverResources
    /\ random_points = [origin |-> "seed", steps |-> << >>]
    /\ \A s \in Sets : /\ Len(point_buffers[s].steps) = 1
                       /\ point_buffers[s].steps[1].gen = 1
    /\ \E s \in Sets : scores[s] > 0

\* the values a noise draw of the given strength can take
NoiseValues(strength) ==
    { NoiseChoices(strength)[k] : k \in DOMAIN NoiseChoices(strength) }

\* the scale a population entry's matrix applies: the lengths of its columns
AppliedScale(entry) == Decompose(entry.computed).scale

\* the matrix of the entry applies its stored scale raised to 0.2 where lower
ScaleClamped(entry) ==
    \A k \in 1 .. 2 :
        /\ AppliedScale(entry)[k] >= SCALE_MIN
        /\ AppliedScale(entry)[k] =
              IF entry.decomposition.scale[k] < SCALE_MIN THEN SCALE_MIN
              ELSE entry.decomposition.scale[k]

\* C26: the matrix of every population entry applies the stored scale raised
\* to at least 0.2 in each component, while the stored scale is not clamped:
\* a child's stored scale is its parent's stored scale plus the drawn noise,
\* also where the parent's is below 0.2.
C26_ScaleClampedInComputed ==
    /\ \A k \in DOMAIN maps : ScaleClamped(maps[k])
    /\ \A q \in PendingWrites : \A k \in DOMAIN queue[q].arg :
          ScaleClamped(queue[q].arg[k])
    /\ sel.wrote =>
          \A c \in DOMAIN ChildParents : \A k \in 1 .. 2 :
              (ChildParents[c].child.scale[k] - ChildParents[c].parent.scale[k])
                  \in NoiseValues(sel.strength)

\* C26 witness: the population holds a child with a negative stored scale
\* component, made from a parent whose stored component was below 0.2, and the
\* matrix of the child applies 0.2
C26_Witness ==
    /\ sel.wrote /\ maps = sel.children
    /\ \E c \in DOMAIN ChildParents : \E k \in 1 .. 2 :
          /\ ChildParents[c].parent.scale[k] < SCALE_MIN
          /\ ChildParents[c].child.scale[k] < 0
          /\ AppliedScale(maps[Len(sel.best_maps) + c])[k] = SCALE_MIN

\* shear values to compare a composed entry against
ShearProbes == {-ONE, 0, ONE \div 2, ONE}

\* C27: the matrix of every population entry is what compose gives for the
\* entry's decomposition with any other shear in its place; the shear is
\* stored in the entry all the same, and a child's stored shear is its
\* parent's plus a drawn noise.
C27_ShearNotApplied ==
    /\ \A k \in DOMAIN maps : \A x \in ShearProbes :
          /\ Compose(maps[k].decomposition) = maps[k]
          /\ Compose([maps[k].decomposition EXCEPT !.shear = x]).computed
                 = maps[k].computed
          /\ Compose([maps[k].decomposition EXCEPT !.shear = x]).decomposition.shear = x
    /\ sel.wrote =>
          \A c \in DOMAIN ChildParents :
              (ChildParents[c].child.shear - ChildParents[c].parent.shear)
                  \in NoiseValues(sel.strength)

\* C27 witness: the population holds a child whose stored shear is not zero
\* and differs from its parent's
C27_Witness ==
    /\ sel.wrote /\ maps = sel.children
    /\ \E c \in DOMAIN ChildParents :
          /\ ChildParents[c].child.shear # ChildParents[c].parent.shear
          /\ ChildParents[c].child.shear # 0
          /\ maps[Len(sel.best_maps) + c].decomposition.shear = ChildParents[c].child.shear

(***************************************************************************)
(* The reduce_buffer_pair mutexes: Evolver::reduce, select_simulations and *)
(* get_first_buffer_a called from three threads, one statement at a time   *)
(***************************************************************************)
LockThreads == {"reduce", "select_simulations", "get_first_buffer_a"}

\* a thread at the start of its call
NewThread == [pc |-> "lock", idx |-> 0, pass |-> 1, taken |-> << >>, seen |-> << >>]

InitLock ==
    /\ maps_per_set = 1
    /\ elite_len \in 1 .. MaxEliteLen
    /\ n_children = 0
    /\ depth = 0
    /\ mutation_strength = 0
    /\ mutation_damping = 1
    /\ generations = 0
    /\ source \in SourceImages
    /\ shader = 0
    /\ gray_image = [width |-> IMAGE_SIZE, height |-> IMAGE_SIZE, pixels |-> source]
    /\ missing_shaders = {}
    /\ decomposition = ZeroDecomposition
    /\ resources = AppResources \o EvolverResources
    /\ observed = NoObservation
    /\ maps = RandomMaps(0, Width * maps_per_set)
    /\ random_points = [origin |-> "seed", steps |-> << >>]
    /\ step = 0
    /\ point_buffers = [s \in Sets |-> ZeroPoints]
    /\ textures = [s \in Sets |-> [image |-> ZeroPixels, points |-> ZeroPoints]]
    /\ reduce_buffers = [s \in Sets |-> [A |-> ZeroPixels, B |-> ZeroPixels]]
    /\ reduce_buffer_pair = [s \in Sets |-> NewReduceBufferPair]
    /\ scores = [s \in Sets |-> 0]
    /\ queue = << >>
    /\ pc = "callers"
    /\ i = 0
    /\ fut = [mutation_strength |-> 0]
    /\ dl = [scores |-> NoDownload, maps |-> NoDownload]
    /\ best_map_set = << >>
    /\ log = << >>
    /\ maps_version = 0
    /\ sel = NoSelect
    /\ mutex = [s \in Sets |-> "free"]
    /\ threads = [t \in LockThreads |-> NewThread]
    /\ NoBasicApp

\* a lock that does not wait for its holder
CanLockUnguarded(s) == s \in Sets

\* Mutex::lock returns once no other thread holds the guard
CanLock(s) == mutex[s] = "free"

\* a guard that is leaked instead of dropped
ReleasedNever(m, s) == m

\* drop of the MutexGuard
Released(m, s) == [m EXCEPT ![s] = "free"]

\* mem::swap(&mut self.a, &mut self.b)
SwapBuffers(pair) == [pair EXCEPT !.a = pair.b, !.b = pair.a]

\* mem::swap(&mut self.a_to_b, &mut self.b_to_a)
SwapBindGroups(pair) == [pair EXCEPT !.a_to_b = pair.b_to_a, !.b_to_a = pair.a_to_b]

\* what no statement of the three methods touches
LockFrame ==
    UNCHANGED << params, step, gpu, pc, i, fut, dl, best_map_set, log, sel,
                 resources, observed, basic >>

\* map_set_data.reduce_buffer_pair.lock(), by thread t at its map set
AcquireLock(t, next) ==
    /\ threads[t].pc = "lock"
    /\ CanLock(threads[t].idx)
    /\ mutex' = [mutex EXCEPT ![threads[t].idx] = t]
    /\ threads' = [threads EXCEPT ![t].pc = next]
    /\ UNCHANGED << reduce_buffer_pair, queue >>
    /\ LockFrame

\* the guard of thread t goes out of scope; the iterator moves to the next
\* map set, or is exhausted
ReleaseLock(t, after) ==
    /\ threads[t].pc = "unlock"
    /\ mutex' = Released(mutex, threads[t].idx)
    /\ threads' = [threads EXCEPT ![t] =
          IF threads[t].idx + 1 < Width /\ t # "get_first_buffer_a"
          THEN [@ EXCEPT !.idx = @ + 1, !.pc = "lock"]
          ELSE [@ EXCEPT !.pc = after]]
    /\ UNCHANGED << reduce_buffer_pair, queue >>
    /\ LockFrame

\* Rate::reduce_all_once, the closure of one map set
ReduceLock == AcquireLock("reduce", "bind")

\* compute_pass.set_bind_group(0, &reduce_buffer_pair.a_to_b, &[])
ReduceBind ==
    /\ threads["reduce"].pc = "bind"
    /\ threads' = [threads EXCEPT
          !["reduce"].taken = Append(@, reduce_buffer_pair[threads["reduce"].idx].a_to_b),
          !["reduce"].seen = Append(@, reduce_buffer_pair[threads["reduce"].idx]),
          !["reduce"].pc = "swap_buffers"]
    /\ UNCHANGED << reduce_buffer_pair, queue, mutex >>
    /\ LockFrame

\* reduce_buffer_pair.swap(), first statement
ReduceSwapBuffers ==
    /\ threads["reduce"].pc = "swap_buffers"
    /\ reduce_buffer_pair' = [reduce_buffer_pair EXCEPT
          ![threads["reduce"].idx] = SwapBuffers(@)]
    /\ threads' = [threads EXCEPT !["reduce"].pc = "swap_groups"]
    /\ UNCHANGED << queue, mutex >>
    /\ LockFrame

\* reduce_buffer_pair.swap(), second statement
ReduceSwapGroups ==
    /\ threads["reduce"].pc = "swap_groups"
    /\ reduce_buffer_pair' = [reduce_buffer_pair EXCEPT
          ![threads["reduce"].idx] = SwapBindGroups(@)]
    /\ threads' = [threads EXCEPT !["reduce"].pc = "unlock"]
    /\ UNCHANGED << queue, mutex >>
    /\ LockFrame

ReduceUnlock == ReleaseLock("reduce", "submit")

\* context.queue().submit(commands) of one pass, then the next pass of
\* reduce_all
ReduceSubmit ==
    /\ threads["reduce"].pc = "submit"
    /\ queue' = Append(queue,
          Cmd("reduce", [n |-> ReducePassSizes[threads["reduce"].pass],
                         bind |-> [s \in Sets |-> threads["reduce"].taken[s + 1]]]))
    /\ threads' = [threads EXCEPT !["reduce"] =
          IF threads["reduce"].pass < Len(ReducePassSizes)
          THEN [@ EXCEPT !.pass = @ + 1, !.idx = 0, !.taken = << >>, !.pc = "lock"]
          ELSE [@ EXCEPT !.taken = << >>, !.pc = "done"]]
    /\ UNCHANGED << reduce_buffer_pair, mutex >>
    /\ LockFrame

\* Evolver::select_simulations, the closure of one map set
SelectLock == AcquireLock("select_simulations", "read")

\* .a.clone()
SelectRead ==
    /\ threads["select_simulations"].pc = "read"
    /\ threads' = [threads EXCEPT
          !["select_simulations"].taken =
              Append(@, reduce_buffer_pair[threads["select_simulations"].idx].a),
          !["select_simulations"].seen =
              Append(@, reduce_buffer_pair[threads["select_simulations"].idx]),
          !["select_simulations"].pc = "unlock"]
    /\ UNCHANGED << reduce_buffer_pair, queue, mutex >>
    /\ LockFrame

SelectUnlock == ReleaseLock("select_simulations", "submit")

\* Select::select: the submission of the score copy
SelectSubmit ==
    /\ threads["select_simulations"].pc = "submit"
    /\ queue' = Append(queue,
          Cmd("copy_scores", [s \in Sets |-> threads["select_simulations"].taken[s + 1]]))
    /\ threads' = [threads EXCEPT !["select_simulations"].pc = "done"]
    /\ UNCHANGED << reduce_buffer_pair, mutex >>
    /\ LockFrame

\* Evolver::get_first_buffer_a: map_set_data[0].reduce_buffer_pair.lock()
FirstBufferLock == AcquireLock("get_first_buffer_a", "read")

\* .a.download(context): the copy is encoded, nothing is submitted
FirstBufferRead ==
    /\ threads["get_first_buffer_a"].pc = "read"
    /\ threads' = [threads EXCEPT
          !["get_first_buffer_a"].taken = << reduce_buffer_pair[0].a >>,
          !["get_first_buffer_a"].seen = << reduce_buffer_pair[0] >>,
          !["get_first_buffer_a"].pc = "unlock"]
    /\ UNCHANGED << reduce_buffer_pair, queue, mutex >>
    /\ LockFrame

\* the method returns the future; the guard is dropped
FirstBufferUnlock == ReleaseLock("get_first_buffer_a", "poll")

\* first poll of the returned future: Buffer::download submits its copy
FirstBufferPoll ==
    /\ threads["get_first_buffer_a"].pc = "poll"
    /\ queue' = Append(queue,
          Cmd("read", [reader |-> "get_first_buffer_a",
                       buffer |-> threads["get_first_buffer_a"].taken[1]]))
    /\ threads' = [threads EXCEPT !["get_first_buffer_a"].pc = "done"]
    /\ UNCHANGED << reduce_buffer_pair, mutex >>
    /\ LockFrame

NextLock ==
    \/ ReduceLock
    \/ ReduceBind
    \/ ReduceSwapBuffers
    \/ ReduceSwapGroups
    \/ ReduceUnlock
    \/ ReduceSubmit
    \/ SelectLock
    \/ SelectRead
    \/ SelectUnlock
    \/ SelectSubmit
    \/ FirstBufferLock
    \/ FirstBufferRead
    \/ FirstBufferUnlock
    \/ FirstBufferPoll

SpecLock == InitLock /\ [][NextLock]_vars

\* every thread keeps running while it has a statement it can execute
SpecLockFair == SpecLock /\ WF_vars(NextLock)

\* thread t holds the mutex of map set s
Holds(t, s) == s \in DOMAIN mutex /\ mutex[s] = t

\* C28: a pair whose buffers are swapped and whose bind groups are not yet is
\* locked by the thread in the middle of swap; whatever a thread reads from a
\* pair it reads under the pair's lock, and every pair a thread has read had
\* a_to_b reading its `a` and writing its `b`, and b_to_a the reverse; the two
\* statements of swap together exchange roles and bind groups.
C28_ConsistentUnderLock ==
    /\ \A s \in Sets :
          /\ ~PairConsistent(reduce_buffer_pair[s]) =>
                /\ Holds("reduce", s)
                /\ threads["reduce"].pc = "swap_groups"
                /\ threads["reduce"].idx = s
          /\ SwapBindGroups(SwapBuffers(reduce_buffer_pair[s])) = Swap(reduce_buffer_pair[s])
    /\ \A t \in LockThreads :
          /\ threads[t].pc \in {"read", "bind"} =>
                /\ Holds(t, threads[t].idx)
                /\ PairConsistent(reduce_buffer_pair[threads[t].idx])
          /\ \A k \in DOMAIN threads[t].seen : PairConsistent(threads[t].seen[k])

\* C28 witness: reduce is between the two statements of swap on map set 0
\* while get_first_buffer_a waits for that lock, and select_simulations has
\* read the pair of map set 0 after an odd number of swaps
C28_Witness ==
    /\ Holds("reduce", 0) /\ threads["reduce"].pc = "swap_groups"
    /\ ~PairConsistent(reduce_buffer_pair[0])
    /\ threads["get_first_buffer_a"].pc = "lock"
    /\ Len(threads["select_simulations"].seen) >= 1
    /\ threads["select_simulations"].seen[1].a = "B"

\* the map sets whose mutex thread t holds
HeldBy(t) == { s \in DOMAIN mutex : mutex[s] = t }

\* C29: no thread holds the mutexes of two map sets at once, a thread that
\* submits to the queue or has returned its future holds none, and every
\* thread waiting for a mutex gets it: all three calls run to their end.
C29_NoDeadlock ==
    /\ [](\A t \in LockThreads :
            /\ Cardinality(HeldBy(t)) <= 1
            /\ threads[t].pc \in {"lock", "submit", "poll", "done"} => HeldBy(t) = {})
    /\ [][\A t \in LockThreads :
            (queue' # queue /\ threads'[t] # threads[t]) => HeldBy(t) = {}]_vars
    /\ \A t \in LockThreads :
          /\ (threads[t].pc = "lock") ~> (threads[t].pc # "lock" /\ HeldBy(t) # {})
          /\ <>(threads[t].pc = "done")

\* C29 witness: select_simulations holds the mutex of map set 0 and reduce
\* the one of map set 1 while get_first_buffer_a waits for map set 0
C29_Witness ==
    /\ Width = 2
    /\ mutex[0] = "select_simulations" /\ mutex[1] = "reduce"
    /\ threads["get_first_buffer_a"].pc = "lock"
    /\ threads["reduce"].pass = 2

\* C30: a Select that ran with strength 0 and n_children >= 1 stopped before
\* it had a child and before any write: the task is aborted, nothing of that
\* generation is written and the population is the one it downloaded; a
\* Select with n_children = 0 has written exactly its elite pool, whatever
\* the strength.
C30_EmptyNoiseRange ==
    /\ (sel.gen >= 0 /\ sel.strength = 0 /\ n_children >= 1) =>
          /\ pc = "panicked"
          /\ ~sel.wrote /\ sel.children = << >>
          /\ i = sel.gen
          /\ \A k \in PendingWrites : queue[k].gen < sel.gen
          /\ (PendingWrites = {}) => maps = sel.maps
    /\ (sel.gen >= 0 /\ n_children = 0) =>
          /\ sel.wrote
          /\ sel.children = sel.best_maps
          /\ Len(sel.children) = elite_len * maps_per_set
    /\ (sel.gen >= 0 /\ sel.strength > 0) => sel.wrote

\* C30 witness: the first Select of a run with strength 0 and one child per
\* elite has aborted; the device is idle and the population is the initial one
C30_Witness ==
    /\ pc = "panicked" /\ sel.gen = 0 /\ sel.strength = 0 /\ n_children = 1
    /\ sel.downloads = << "mapped", "mapped" >>
    /\ queue = << >> /\ maps_version = 0 /\ maps = sel.maps

(***************************************************************************)
(* The basic Simulation (sim.rs): the dispatch schedule of the point       *)
(* buffer and the map index array, built once by Simulation::new           *)
(***************************************************************************)
\* const MAX_WORKGROUPS_PER_DISPATCH_UNALIGNED: u32 = u16::MAX as u32
MAX_WORKGROUPS_PER_DISPATCH_UNALIGNED == 65535
\* const MAP_INDEX_ARRAY_LEN: usize = 144
MAP_INDEX_ARRAY_LEN == 144
\* the most full chunks of a point buffer
MaxChunks == 2

\* an unaligned chunk length
MaxWorkgroupsUnaligned(a) == MAX_WORKGROUPS_PER_DISPATCH_UNALIGNED

\* (MAX_WORKGROUPS_PER_DISPATCH_UNALIGNED / alignment) * alignment
MaxWorkgroupsPerDispatch(a) == (MAX_WORKGROUPS_PER_DISPATCH_UNALIGNED \div a) * a

\* probability weights, in units that keep the f32 quotients away from ties
\* (or, for << 1, 31 >>, exactly on one: 144 / 32 = 4.5); << 1, 85, 7, 7 >> is
\* Barnsley (map.rs)
WeightSets ==
    { << 1 >>, << 1, 1 >>, << 1, 1, 1 >>, << 1, 31 >>, << 1, 85, 7, 7 >>,
      << 5, 1, 1, 1 >>, << 1, 0, 1 >> }

\* the fit application and its Evolver are not part of the basic application
NoEvolver ==
    /\ decomposition = ZeroDecomposition
    /\ maps_per_set = 1
    /\ elite_len = 1
    /\ n_children = 0
    /\ depth = 0
    /\ mutation_strength = 0
    /\ mutation_damping = 1
    /\ generations = 0
    /\ shader = 0
    /\ gray_image = [width |-> 0, height |-> 0, pixels |-> << >>]
    /\ missing_shaders = {}
    /\ source = << >>
    /\ random_points = ZeroPoints
    /\ maps = << >>
    /\ step = 0
    /\ point_buffers = << >>
    /\ textures = << >>
    /\ reduce_buffers = << >>
    /\ reduce_buffer_pair = << >>
    /\ scores = << >>
    /\ pc = "basic"
    /\ i = 0
    /\ fut = [mutation_strength |-> 0]
    /\ dl = [scores |-> NoDownload, maps |-> NoDownload]
    /\ best_map_set = << >>
    /\ log = << >>
    /\ maps_version = 0
    /\ sel = NoSelect
    /\ resources = << >>
    /\ observed = NoObservation
    /\ mutex = [s \in Sets |-> "free"]
    /\ threads = << >>

evolver == << params, step, gpu, reduce_buffer_pair, pc, i, fut, dl,
              best_map_set, log, sel, resources, observed, locks >>

InitSim ==
    /\ NoEvolver
    /\ queue = << >>
    \* min_storage_buffer_offset_alignment: 256 by default, 32 or 64 on
    \* devices that allow less
    /\ alignment \in {32, 64, 256}
    \* lengths of point buffers: around every multiple of the chunk length
    /\ n_points \in { k * MaxWorkgroupsPerDispatch(alignment) + r :
                         k \in 0 .. MaxChunks,
                         r \in {0, 1, alignment,
                                MaxWorkgroupsPerDispatch(alignment) - 1} }
    /\ weights \in WeightSets
    /\ simulation = NoSimulation
    /\ dispatched = << >>
    /\ sim_steps = 0
    /\ container = "Created"
    /\ exit_rx = 0
    /\ event_loop = [state |-> "running", timers |-> 0, redraw_requested |-> FALSE]
    /\ delivered = << >>
    /\ surface = 0
    /\ handled = << >>
    /\ record = NoRecord
    /\ task = NoTask
    /\ record_texture = 0
    /\ frames = << >>
    /\ stop_simulation = "empty"

\* .scan(0, |start, len| { let this_start = *start; *start += len; .. })
RECURSIVE ScanStarts(_, _)
ScanStarts(lens, start) ==
    IF lens = << >> THEN << >>
    ELSE << [start |-> start, len |-> Head(lens)] >>
             \o ScanStarts(Tail(lens), start + Head(lens))

\* Simulation::point_bind_groups: the lengths are
\* iter::repeat_n(max_workgroups_per_dispatch, n_max).chain([rem]); one bind
\* group per chunk, bound at the byte offset of `start`, kept with the
\* chunk's length
PointBindGroups(n, a) ==
    LET max_workgroups_per_dispatch == MaxWorkgroupsPerDispatch(a)
        n_max == n \div max_workgroups_per_dispatch
        rem == n % max_workgroups_per_dispatch
    IN  ScanStarts([k \in 1 .. (n_max + 1) |->
                       IF k <= n_max THEN max_workgroups_per_dispatch ELSE rem], 0)

\* f32::round replaced by truncation
RoundDown(num, den) == num \div den

\* f32::round of num / den for num >= 0, den > 0: half away from zero
Round(num, den) == (2 * num + den) \div (2 * den)

RECURSIVE SumSeq(_)
SumSeq(s) == IF s = << >> THEN 0 ELSE Head(s) + SumSeq(Tail(s))

\* iter::once(0).chain(cumulated_probabilities).tuple_windows().enumerate()
\*     .flat_map(|(i, (p, q))| iter::repeat_n(i as u32, q - p))
\* where cumulated_probabilities is probabilities.scan(0.0, ..):
\* (accumulator * 144).round() as usize after each map, the accumulator
\* summing probability_weight / probability_weight_sum
MapIndexArray(w) ==
    LET cumulated_probabilities ==
            [k \in 1 .. Len(w) |->
                Round(MAP_INDEX_ARRAY_LEN * SumSeq(SubSeq(w, 1, k)), SumSeq(w))]
        c == << 0 >> \o cumulated_probabilities
    IN  Flatten([k \in 1 .. Len(w) |-> [j \in 1 .. (c[k + 1] - c[k]) |-> k - 1]])

\* Simulation::new
SimulationNew ==
    /\ simulation = NoSimulation
    /\ simulation' = [point_bind_groups |-> PointBindGroups(n_points, alignment),
                      map_index_array |-> MapIndexArray(weights)]
    /\ UNCHANGED << evolver, queue, n_points, alignment, weights, dispatched,
                    sim_steps, container, exit_rx, event_loop, delivered,
                    surface, handled, record, task, record_texture, frames,
                    stop_simulation >>

\* Simulation::step: one command buffer per chunk, submitted together; the
\* caller awaits the future before it steps again
SimulationStep ==
    /\ simulation # NoSimulation
    /\ queue = << >>
    /\ sim_steps < MaxGenerations
    /\ queue' = [k \in 1 .. Len(simulation.point_bind_groups) |->
                    Cmd("dispatch", simulation.point_bind_groups[k])]
    /\ sim_steps' = sim_steps + 1
    /\ UNCHANGED << evolver, n_points, alignment, weights, simulation, dispatched,
                    container, exit_rx, event_loop, delivered,
                    surface, handled, record, task, record_texture, frames,
                    stop_simulation >>

\* compute_pass.dispatch_workgroups(len, 1, 1) on the chunk's bind group
GpuDispatch ==
    /\ Executing("dispatch")
    /\ dispatched' = Append(dispatched, Head(queue).arg)
    /\ queue' = Tail(queue)
    /\ UNCHANGED << evolver, n_points, alignment, weights, simulation, sim_steps,
                    container, exit_rx, event_loop, delivered,
                    surface, handled, record, task, record_texture, frames,
                    stop_simulation >>

NextSim == SimulationNew \/ SimulationStep \/ GpuDispatch

SpecSim == InitSim /\ [][NextSim]_vars

\* chunk g holds point p
Covers(g, p) == g.start <= p /\ p < g.start + g.len

\* the points at which the schedule could go wrong: the ends of the buffer
\* and both sides of every chunk boundary
ProbePoints ==
    { p \in {0, n_points - 1}
            \cup UNION { {g.start - 1, g.start, g.start + g.len - 1, g.start + g.len} :
                           g \in { simulation.point_bind_groups[k] :
                                     k \in DOMAIN simulation.point_bind_groups } } :
        0 <= p /\ p < n_points }

CountCovering(s, p) == Cardinality({ k \in DOMAIN s : Covers(s[k], p) })

\* C31: the schedule built by Simulation::new is a partition of the points:
\* it starts at 0, the chunks are contiguous and pairwise disjoint, their
\* lengths sum to the number of points, every chunk but the last has the
\* largest multiple of the alignment not above 65535 as its length and the
\* last has the remainder, every start is a multiple of the alignment, and
\* every completed step has dispatched one workgroup per point.
C31_DispatchPartition ==
    simulation # NoSimulation =>
        LET g == simulation.point_bind_groups
            last == Len(g)
        IN  /\ last >= 1
            /\ g[1].start = 0
            /\ \A k \in 1 .. (last - 1) : g[k + 1].start = g[k].start + g[k].len
            /\ \A j, k \in 1 .. last :
                   j < k => g[j].start + g[j].len <= g[k].start
            /\ SumSeq([k \in 1 .. last |-> g[k].len]) = n_points
            /\ \A k \in 1 .. (last - 1) :
                   /\ g[k].len % alignment = 0
                   /\ g[k].len <= 65535
                   /\ g[k].len + alignment > 65535
            /\ g[last].len = n_points - SumSeq([k \in 1 .. (last - 1) |-> g[k].len])
            /\ g[last].len >= 0
            /\ \A k \in 1 .. (last - 1) : g[last].len < g[k].len
            /\ \A k \in 1 .. last : g[k].start % alignment = 0
            /\ \A p \in ProbePoints : CountCovering(g, p) = 1
            /\ \A p \in ProbePoints :
                   CountCovering(dispatched, p)
                     + CountCovering([k \in DOMAIN queue |-> queue[k].arg], p) = sim_steps
            /\ SumSeq([k \in DOMAIN dispatched |-> dispatched[k].len])
                 + SumSeq([k \in DOMAIN queue |-> queue[k].arg.len])
                   = sim_steps * n_points

\* C31 witness: a buffer of two full chunks and a remainder with alignment
\* 256, after one completed step of three dispatches
C31_Witness ==
    /\ alignment = 256
    /\ n_points = 2 * 65280 + 1
    /\ simulation # NoSimulation
    /\ Len(simulation.point_bind_groups) = 3
    /\ sim_steps = 1
    /\ queue = << >>
    /\ dispatched = simulation.point_bind_groups

\* the integer nearest to num / den, the upper one on a tie
Nearest(num, den) ==
    CHOOSE r \in 0 .. MAP_INDEX_ARRAY_LEN :
        (2 * r - 1) * den <= 2 * num /\ 2 * num < (2 * r + 1) * den

\* round(144 * c_k), c_k the cumulative normalised weight of maps 0..k-1
RoundedCumulative(k) ==
    Nearest(MAP_INDEX_ARRAY_LEN * SumSeq(SubSeq(weights, 1, k)), SumSeq(weights))

Occurrences(a, x) == Cardinality({ j \in DOMAIN a : a[j] = x })

\* C32: the map index array built by Simulation::new is non-decreasing, has
\* 144 entries when all weights are positive, holds map index i exactly
\* round(144 c_i) - round(144 c_(i-1)) times and nothing else, so that the
\* count of a map is within one entry of 144 times its relative weight.
C32_MapIndexArray ==
    simulation # NoSimulation =>
        LET a == simulation.map_index_array
            n == Len(weights)
        IN  /\ \A j \in 1 .. (Len(a) - 1) : a[j] <= a[j + 1]
            /\ (\A k \in 1 .. n : weights[k] > 0) => Len(a) = 144
            /\ \A j \in DOMAIN a : a[j] \in 0 .. (n - 1)
            /\ \A k \in 1 .. n :
                   Occurrences(a, k - 1)
                       = RoundedCumulative(k) - RoundedCumulative(k - 1)
            /\ \A k \in 1 .. n :
                   LET d == Occurrences(a, k - 1) * SumSeq(weights) - 144 * weights[k]
                   IN  -SumSeq(weights) <= d /\ d <= SumSeq(weights)

\* C32 witness: the Barnsley weights 0.01, 0.85, 0.07, 0.07 give 1, 123, 10
\* and 10 entries
C32_Witness ==
    /\ weights = << 1, 85, 7, 7 >>
    /\ simulation # NoSimulation
    /\ Occurrences(simulation.map_index_array, 0) = 1
    /\ Occurrences(simulation.map_index_array, 1) = 123
    /\ Occurrences(simulation.map_index_array, 2) = 10
    /\ Occurrences(simulation.map_index_array, 3) = 10
    /\ simulation.map_index_array[2] = 1
    /\ simulation.map_index_array[144] = 3

(***************************************************************************)
(* The basic application: the container that winit drives (app.rs) and     *)
(* the simulation task spawned by its builder (apps/basic.rs)              *)
(***************************************************************************)
\* the most window events handled, and exit messages sent, in one run
MaxEvents == 2

InitBasic ==
    /\ NoEvolver
    /\ queue = << >>
    /\ n_points = 0
    /\ alignment = 1
    /\ weights = << >>
    /\ simulation = NoSimulation
    /\ dispatched = << >>
    /\ sim_steps = 0
    /\ container = "Created"
    /\ exit_rx = 0
    /\ event_loop = [state |-> "running", timers |-> 0, redraw_requested |-> FALSE]
    /\ delivered = << >>
    /\ surface = 0
    /\ handled = << >>
    \* record: None, or Some(RecordConfig { n_gens, .. })
    /\ record \in {NoRecord} \cup { [recording |-> TRUE, n_gens |-> n] :
                                       n \in 0 .. MaxGenerations }
    /\ task = NoTask
    /\ record_texture = 0
    /\ frames = << >>
    /\ stop_simulation = "empty"

sim_vars == << n_points, alignment, weights, simulation, dispatched >>

\* event_loop.exit()
ExitRequested(loop) == [loop EXCEPT !.state = "exiting"]

\* a task that starts at its loop, without the frame of the initial points
SpawnedWithoutFirstFrame == [pc |-> "condition", gen_iter |-> 0]

\* basic::AppBuilder::build: runtime().spawn(async move { .. })
Spawned == [pc |-> IF record.recording THEN "first_render" ELSE "condition",
            gen_iter |-> 0]

\* a container that builds the app again whenever it is resumed
ResumesFromAny == TRUE

\* if !matches!(self, AppContainer::Created(_)) { return; }
ResumesFrom == container = "Created"

\* ApplicationHandler::resumed
Resumed ==
    /\ event_loop.state \in {"running", "exiting"}
    /\ IF ~ResumesFrom
       THEN UNCHANGED << container, event_loop, task >>
       ELSE \E outcome \in {"window_failed", "surface_failed", "app_failed", "ok"} :
               CASE outcome \in {"window_failed", "surface_failed"} ->
                        /\ container' = "Error"
                        /\ event_loop' = ExitRequested(event_loop)
                        /\ UNCHANGED task
                 [] outcome = "app_failed" ->
                        \* .expect("failed to create app") after mem::replace
                        /\ container' = "Error"
                        /\ event_loop' = [event_loop EXCEPT !.state = "panicked"]
                        /\ UNCHANGED task
                 [] outcome = "ok" ->
                        /\ container' = "Ready"
                        /\ task' = Spawned
                        /\ UNCHANGED event_loop
    /\ UNCHANGED << evolver, queue, sim_vars, sim_steps, exit_rx, delivered,
                    surface, handled, record, record_texture, frames,
                    stop_simulation >>

\* an exit check that never finds a message
TryRecvNever == FALSE

\* exit_rx.try_recv().is_ok()
TryRecvOk == exit_rx > 0

\* a render whose result is ignored
RenderOkAlways(outcome) == outcome # "texture_failed"

\* get_current_texture and app.render both returned Ok
RenderOk(outcome) == outcome = "ok"

\* ApplicationHandler::window_event, on the two events the container matches
\* on and one of the others
WindowEvent ==
    /\ event_loop.state \in {"running", "exiting"}
    /\ Len(handled) < MaxEvents
    /\ \E event \in {"Resized", "RedrawRequested", "CloseRequested"} :
       \E outcome \in IF event = "RedrawRequested"
                      THEN {"texture_failed", "render_failed", "ok"} ELSE {"ok"} :
          LET loop == IF event = "RedrawRequested"
                      THEN [event_loop EXCEPT !.redraw_requested = FALSE]
                      ELSE event_loop
              got == [event |-> event, outcome |-> outcome]
          IN  IF container # "Ready"
              THEN /\ event_loop' = loop
                   /\ handled' = Append(handled, [got EXCEPT !.outcome = "ignored"])
                   /\ UNCHANGED << exit_rx, delivered, surface >>
              ELSE IF TryRecvOk
              THEN /\ exit_rx' = exit_rx - 1
                   /\ event_loop' = ExitRequested(loop)
                   /\ handled' = Append(handled, [got EXCEPT !.outcome = "exit"])
                   /\ UNCHANGED << delivered, surface >>
              ELSE IF event = "RedrawRequested" /\ ~RenderOk(outcome)
              THEN /\ event_loop' = ExitRequested(loop)
                   /\ handled' = Append(handled, got)
                   /\ UNCHANGED << exit_rx, delivered, surface >>
              ELSE /\ handled' = Append(handled, got)
                   /\ surface' = IF event = "RedrawRequested" THEN surface + 1 ELSE surface
                   \* basic::App::event: CloseRequested calls controller.exit()
                   /\ event_loop' =
                          CASE event = "RedrawRequested" -> [loop EXCEPT !.timers = @ + 1]
                            [] event = "CloseRequested" -> ExitRequested(loop)
                            [] OTHER -> loop
                   /\ delivered' = Append(delivered, event)
                   /\ UNCHANGED exit_rx
    /\ UNCHANGED << evolver, queue, sim_vars, sim_steps, container, record, task,
                    record_texture, frames, stop_simulation >>

\* AppController::exit, from any thread that holds a controller
ControllerExit ==
    /\ container = "Ready"
    /\ event_loop.state \in {"running", "exiting"}
    /\ exit_rx < MaxEvents
    /\ exit_rx' = exit_rx + 1
    /\ UNCHANGED << evolver, queue, sim_vars, sim_steps, container, event_loop,
                    delivered, surface, handled, record, task, record_texture, frames,
                    stop_simulation >>

\* the task spawned after a render: sleep(200 ms), then window.request_redraw()
RedrawTimer ==
    /\ event_loop.state \in {"running", "exiting"}
    /\ event_loop.timers > 0
    /\ event_loop' = [event_loop EXCEPT !.timers = @ - 1, !.redraw_requested = TRUE]
    /\ UNCHANGED << evolver, queue, sim_vars, sim_steps, container, exit_rx,
                    delivered, surface, handled, record, task, record_texture, frames,
                    stop_simulation >>

\* run_app returns and the container is dropped; Drop for App sends the stop
\* message, .expect("failed to stop simulation"): the receiver lives in the
\* task's future and is gone when the task has ended
LoopExit ==
    /\ event_loop.state = "exiting"
    /\ container' = "Dropped"
    /\ IF container = "Ready"
       THEN IF task.pc \notin {"done", "panicked"}
            THEN /\ stop_simulation' = "sent"
                 /\ event_loop' = [event_loop EXCEPT !.state = "ended"]
            ELSE /\ event_loop' = [event_loop EXCEPT !.state = "panicked"]
                 /\ UNCHANGED stop_simulation
       ELSE /\ event_loop' = [event_loop EXCEPT !.state = "ended"]
            /\ UNCHANGED stop_simulation
    /\ UNCHANGED << evolver, queue, sim_vars, sim_steps, exit_rx, delivered,
                    surface, handled, record, task, record_texture, frames >>

\* drop(record.renderer.render(simulation.points(), .., &record.texture_view, ..))
TaskRender ==
    /\ task.pc \in {"first_render", "render"}
    /\ record_texture' = sim_steps
    /\ task' = [task EXCEPT !.pc = IF @ = "first_render" THEN "first_frame" ELSE "frame"]
    /\ UNCHANGED << sim_steps, frames, stop_simulation >>
    /\ UNCHANGED << evolver, queue, sim_vars, container, exit_rx, event_loop, delivered,
                    surface, handled, record >>

\* record.write_frame(..).await: copy the texture, map it, encode the frame
TaskWriteFrame ==
    /\ task.pc \in {"first_frame", "frame"}
    /\ frames' = Append(frames, record_texture)
    /\ task' = [task EXCEPT !.pc = "condition"]
    /\ UNCHANGED << sim_steps, record_texture, stop_simulation >>
    /\ UNCHANGED << evolver, queue, sim_vars, container, exit_rx, event_loop, delivered,
                    surface, handled, record >>

\* .expect("failed to write frame")
TaskWriteFramePanics ==
    /\ task.pc \in {"first_frame", "frame"}
    /\ task' = [task EXCEPT !.pc = "panicked"]
    /\ UNCHANGED << sim_steps, record_texture, frames, stop_simulation >>
    /\ UNCHANGED << evolver, queue, sim_vars, container, exit_rx, event_loop, delivered,
                    surface, handled, record >>

\* a loop that ignores the stop channel
ContinuesIgnoringStop ==
    record.recording => task.gen_iter < record.n_gens

\* stop_simulation_rx.try_recv() == Err(TryRecvError::Empty)
\*     && gen_iter.as_mut().is_none_or(|gen| gen.next().is_some())
Continues ==
    /\ stop_simulation = "empty"
    /\ record.recording => task.gen_iter < record.n_gens

\* the loop condition; try_recv takes the message, and gen.next() is only
\* evaluated when the channel was empty; a task that is never stopped makes
\* at most MaxGenerations + 1 steps
TaskCondition ==
    /\ task.pc = "condition"
    /\ Continues => sim_steps < MaxGenerations + 1
    /\ stop_simulation' = IF stop_simulation = "sent" THEN "received" ELSE stop_simulation
    /\ task' = IF Continues
               THEN [pc |-> "step",
                     gen_iter |-> IF record.recording THEN task.gen_iter + 1
                                  ELSE task.gen_iter]
               ELSE [task EXCEPT !.pc = "done"]
    /\ UNCHANGED << sim_steps, record_texture, frames >>
    /\ UNCHANGED << evolver, queue, sim_vars, container, exit_rx, event_loop, delivered,
                    surface, handled, record >>

\* interval.tick().await; simulation.step(context.borrow()).await
TaskStep ==
    /\ task.pc = "step"
    /\ sim_steps' = sim_steps + 1
    /\ task' = [task EXCEPT !.pc = IF record.recording THEN "render" ELSE "condition"]
    /\ UNCHANGED << record_texture, frames, stop_simulation >>
    /\ UNCHANGED << evolver, queue, sim_vars, container, exit_rx, event_loop, delivered,
                    surface, handled, record >>

NextBasic ==
    \/ Resumed
    \/ WindowEvent
    \/ ControllerExit
    \/ RedrawTimer
    \/ LoopExit
    \/ TaskRender
    \/ TaskWriteFrame
    \/ TaskWriteFramePanics
    \/ TaskCondition
    \/ TaskStep

SpecBasic == InitBasic /\ [][NextBasic]_vars

\* the runtime keeps polling the task, and the device completes its work
SpecBasicFair ==
    SpecBasic /\ WF_vars(TaskRender \/ TaskWriteFrame \/ TaskCondition \/ TaskStep)

\* a step that handles one window event
HandlesEvent == Len(handled') = Len(handled) + 1

Last(s) == s[Len(s)]

\* C33: the container only moves from Created to Ready or Error (and is
\* dropped at the end); the app and its task come into being exactly in the
\* step from Created to Ready; a step from Created to Error asks the event
\* loop to exit (or is the panic of a failed app construction); in Ready and
\* Error a later resumed changes nothing; the app receives events, and the
\* surface is presented, only while the container is Ready.
C33_OneWayContainer ==
    /\ [](/\ container \in {"Created", "Ready", "Error", "Dropped"}
          /\ container = "Created" =>
                (task = NoTask /\ event_loop.state = "running")
          /\ container \in {"Created", "Error"} =>
                (delivered = << >> /\ surface = 0 /\ task = NoTask)
          /\ container = "Ready" => task # NoTask
          /\ container = "Error" => event_loop.state # "running")
    /\ [][/\ container' # container =>
                \/ container = "Created" /\ container' \in {"Ready", "Error"}
                \/ container' = "Dropped" /\ event_loop.state = "exiting"
          /\ (task = NoTask /\ task' # NoTask) =>
                (container = "Created" /\ container' = "Ready")
          /\ task = NoTask \/ task'.pc # "first_render" \/ task' = task
          /\ (container = "Created" /\ container' = "Error") =>
                event_loop'.state \in {"exiting", "panicked"}
          /\ (container = "Created" /\ container' = "Ready") =>
                (event_loop' = event_loop /\ task' = Spawned)
          /\ (delivered' # delivered \/ surface' # surface) =>
                (container = "Ready" /\ container' = "Ready")
          /\ (HandlesEvent /\ container # "Ready") =>
                /\ container' = container
                /\ event_loop'.state = event_loop.state
                /\ exit_rx' = exit_rx]_vars

\* C33 witness: window creation failed, and two window events handled
\* afterwards were ignored
C33_Witness ==
    /\ container = "Error"
    /\ event_loop.state = "exiting"
    /\ Len(handled) = 2
    /\ \A k \in DOMAIN handled : handled[k].outcome = "ignored"
    /\ delivered = << >>

\* C34: a window event handled in state Ready while an exit message is
\* pending takes that message, asks the event loop to exit, and is neither
\* rendered nor delivered; a window event handled in state Ready while none
\* is pending is delivered to the app exactly once, unless the redraw failed.
C34_ExitMessage ==
    /\ [][(HandlesEvent /\ container = "Ready" /\ exit_rx > 0) =>
             /\ exit_rx' = exit_rx - 1
             /\ event_loop'.state = "exiting"
             /\ event_loop'.timers = event_loop.timers
             /\ delivered' = delivered
             /\ surface' = surface]_vars
    /\ [][(HandlesEvent /\ container = "Ready" /\ exit_rx = 0) =>
             /\ exit_rx' = 0
             /\ \/ delivered' = Append(delivered, Last(handled').event)
                \/ /\ Last(handled').event = "RedrawRequested"
                   /\ Last(handled').outcome \in {"texture_failed", "render_failed"}
                   /\ delivered' = delivered]_vars
    /\ [][exit_rx' > exit_rx => (exit_rx' = exit_rx + 1 /\ UNCHANGED << delivered, event_loop >>)]_vars
    /\ [](Len(delivered) <= Len(handled))

\* C34 witness: one event was delivered, exit was then called, and the next
\* event, a redraw, was dropped with the event loop asked to exit
C34_Witness ==
    /\ container = "Ready"
    /\ Len(handled) = 2
    /\ handled[1] = [event |-> "Resized", outcome |-> "ok"]
    /\ handled[2] = [event |-> "RedrawRequested", outcome |-> "exit"]
    /\ delivered = << "Resized" >>
    /\ surface = 0
    /\ exit_rx = 0
    /\ event_loop.state = "exiting"

\* a step that handles RedrawRequested in state Ready with no exit message
HandlesRedraw ==
    /\ HandlesEvent
    /\ Last(handled').event = "RedrawRequested"
    /\ container = "Ready"
    /\ exit_rx = 0

\* C35: a redraw whose texture and render are Ok presents once, schedules
\* exactly one redraw timer and is delivered to the app; a redraw whose
\* texture or render fails asks the event loop to exit, presents nothing,
\* schedules nothing and is not delivered; nothing else presents or
\* schedules, and a timer that fires requests the next redraw.
C35_RedrawRequested ==
    /\ [][(HandlesRedraw /\ Last(handled').outcome = "ok") =>
             /\ surface' = surface + 1
             /\ event_loop'.timers = event_loop.timers + 1
             /\ event_loop'.state = event_loop.state
             /\ delivered' = Append(delivered, "RedrawRequested")]_vars
    /\ [][(HandlesRedraw /\ Last(handled').outcome # "ok") =>
             /\ Last(handled').outcome \in {"texture_failed", "render_failed"}
             /\ surface' = surface
             /\ event_loop'.timers = event_loop.timers
             /\ event_loop'.state = "exiting"
             /\ delivered' = delivered]_vars
    /\ [][(surface' # surface \/ event_loop'.timers > event_loop.timers) =>
             (HandlesRedraw /\ Last(handled').outcome = "ok")]_vars
    /\ [][event_loop'.timers < event_loop.timers =>
             /\ event_loop'.timers = event_loop.timers - 1
             /\ event_loop'.redraw_requested]_vars
    /\ [](surface = Cardinality({ k \in DOMAIN handled :
                     handled[k] = [event |-> "RedrawRequested", outcome |-> "ok"] }))

\* C35 witness: a redraw was presented, its timer fired, and the redraw that
\* followed failed to render: one present, no new timer, exit requested
C35_Witness ==
    /\ container = "Ready"
    /\ handled = << [event |-> "RedrawRequested", outcome |-> "ok"],
                    [event |-> "RedrawRequested", outcome |-> "render_failed"] >>
    /\ surface = 1
    /\ event_loop.timers = 0
    /\ delivered = << "RedrawRequested" >>
    /\ event_loop.state = "exiting"

\* the task spawned by build is recording
Recording == record.recording /\ task # NoTask

TaskEnded == task.pc \in {"done", "panicked"}

\* C36: a recording task writes frame k (k = 0, 1, ..) when exactly k steps
\* have been made, showing the points after step k, so frames and steps
\* alternate, starting with the frame of the initial points; it never makes
\* more than n_gens steps; if it ends without having been stopped and without
\* a failed write, it has made n_gens steps and written n_gens + 1 frames;
\* and it does end.  A task that is not recording writes no frame, goes from
\* its loop condition to another step whenever the stop channel is empty,
\* and ends only by taking the stop message.
C36_RecordedGenerations ==
    /\ [](Recording =>
             /\ \A k \in DOMAIN frames : frames[k] = k - 1
             /\ sim_steps <= record.n_gens
             /\ Len(frames) \in {sim_steps, sim_steps + 1}
             /\ task.pc \in {"condition", "step", "done"} => Len(frames) = sim_steps + 1
             /\ (task.pc = "done" /\ stop_simulation = "empty") =>
                    (sim_steps = record.n_gens /\ Len(frames) = record.n_gens + 1))
    /\ [][frames' # frames =>
             (frames' = Append(frames, sim_steps) /\ sim_steps' = sim_steps)]_vars
    /\ [][sim_steps' # sim_steps =>
             /\ sim_steps' = sim_steps + 1
             /\ frames' = frames
             /\ record.recording => Len(frames) = sim_steps + 1]_vars
    /\ [](~record.recording =>
             /\ frames = << >>
             /\ task.pc # "panicked"
             /\ task.pc = "done" => stop_simulation = "received")
    /\ [][(~record.recording /\ task.pc = "condition" /\ stop_simulation = "empty"
              /\ task' # task) => task'.pc = "step"]_vars
    /\ (Recording ~> TaskEnded)

\* C36 witness: a recording of two generations has ended without a stop
\* message, with two steps made and three frames written
C36_Witness ==
    /\ record = [recording |-> TRUE, n_gens |-> 2]
    /\ task.pc = "done"
    /\ stop_simulation = "empty"
    /\ sim_steps = 2
    /\ frames = << 0, 1, 2 >>

\* C37: the stop message does not interrupt the task: the step that sends it
\* changes nothing of the task, and a step or a frame in progress is
\* completed as it would be otherwise; the next time the task evaluates its
\* loop condition it takes the message and ends without another step; after
\* that it does nothing; and once the message is sent the task does end (it
\* has written the frame of its last step when it recorded and no write
\* failed).
C37_CooperativeStop ==
    /\ [][(stop_simulation = "empty" /\ stop_simulation' = "sent") =>
             (task' = task /\ sim_steps' = sim_steps /\ frames' = frames
                /\ ~TaskEnded /\ container = "Ready" /\ container' = "Dropped")]_vars
    /\ [][(stop_simulation = "sent" /\ task.pc = "condition" /\ task' # task) =>
             /\ task'.pc = "done"
             /\ stop_simulation' = "received"
             /\ sim_steps' = sim_steps
             /\ frames' = frames]_vars
    /\ [][(stop_simulation = "sent" /\ task' # task /\ task.pc # "condition") =>
             /\ stop_simulation' = "sent"
             /\ task.pc = "step" =>
                   /\ sim_steps' = sim_steps + 1
                   /\ task'.pc = IF record.recording THEN "render" ELSE "condition"
             /\ task.pc \in {"first_render", "render"} =>
                   task'.pc \in {"first_frame", "frame"}
             /\ task.pc \in {"first_frame", "frame"} =>
                   \/ task'.pc = "condition" /\ frames' = Append(frames, sim_steps)
                   \/ task'.pc = "panicked"]_vars
    /\ [](stop_simulation = "received" => task.pc = "done")
    /\ [][stop_simulation = "received" =>
             (task' = task /\ sim_steps' = sim_steps /\ frames' = frames
                /\ stop_simulation' = "received")]_vars
    /\ []((task.pc = "done" /\ record.recording) => Len(frames) = sim_steps + 1)
    /\ (stop_simulation = "sent" ~> TaskEnded)

\* C37 witness: a recording of two generations was stopped during its first
\* step; the task completed the step and its frame and then ended
C37_Witness ==
    /\ record = [recording |-> TRUE, n_gens |-> 2]
    /\ container = "Dropped"
    /\ stop_simulation = "received"
    /\ task.pc = "done"
    /\ task.gen_iter = 1
    /\ sim_steps = 1
    /\ frames = << 0, 1 >>

=============================================================================
